---- MODULE Spec2Model ----
(***************************************************************************)
(* The query-calls endpoint of prism-mycar                                 *)
(* (src/src/app/api/openai/query-calls/route.ts, the live definitions of   *)
(* lines 1799-3338): the POST handler and the completion invoker           *)
(* callOpenAIWithRetry with its rate-limit backoff and model downgrade.    *)
(*                                                                         *)
(* Record lists are modelled by their length and by the number of their    *)
(* records whose disposition_title contains 'mtf'; a question is modelled  *)
(* by the outcome of the pattern matchers detectQueryType runs on it.      *)
(*                                                                         *)
(* Further sections model the helpers of route.ts on values given in full  *)
(* (prepareContextForQuery's size limit, extractNumericValue,              *)
(* extractSentiment, performKeywordSearch, preprocessCallData), the        *)
(* record-listing endpoint (src/unnamed/part_004) and the chat client      *)
(* CallRecordsChat with its answer cache (src/unnamed/part_005).  Each has *)
(* its own specification; the variables of the other parts stay at their   *)
(* initial values.                                                         *)
(***************************************************************************)
EXTENDS Integers, Sequences, FiniteSets, TLC

VARIABLES
  pc,                   \* "idle" | "awaiting" (completions.create pending) | "sleeping" (in sleep(delay)) | "done"
  caller,               \* "none" | "POST" | "direct": who invoked callOpenAIWithRetry
  request,              \* the body of the POST request and the environment it ran in
  model,                \* parameter model of the current callOpenAIWithRetry frame
  retryCount,           \* parameter retryCount of the current frame
  attempts,             \* the completions.create calls issued so far, in order
  outcomes,             \* the upstream outcomes received so far, in order
  sleeps,               \* the delays passed to sleep() so far, in order
  result,               \* what callOpenAIWithRetry returned or threw
  response,             \* the NextResponse the POST handler answered with
  recordsToAnalyze,     \* POST local: number of records analysed
  keywordSearchResults, \* POST local: the keyword search made, if any
  aborted,              \* the calling context (request.signal) has aborted
  abortedAt,            \* pc at the moment of the abort
  input,                \* the arguments of a helper function under study
  output,               \* what the helper returned or threw
  applied,              \* "none", or the name of the helper that has run
  listPc,               \* record listing GET: "idle" | "querying" | "done"
  listRequest,          \* its search parameters
  storageOutcome,       \* what the storage query resolved or rejected with
  listResponse,         \* the NextResponse GET answered with
  now,                  \* Date.now() in the browser
  queryCache,           \* chat client: the module-level Map of cached answers
  props,                \* CallRecordsChat: filteredRecords.length and loading
  isTyping,             \* CallRecordsChat state
  typingRetryCount,     \* CallRecordsChat state retryCount
  messages,             \* CallRecordsChat state, without the welcome message
  inflight,             \* the attemptQuery chains started so far, in order
  fetches,              \* number of requests sent to /api/openai/query-calls
  selectedAgent,        \* InsightsPage state: the agent filter
  callRecords,          \* InsightsPage state: the records displayed
  loading,              \* InsightsPage state
  loadingState,         \* InsightsPage state: its isLoading field
  fetchError,           \* InsightsPage state error ("" for null)
  filtersLoading,       \* InsightsPage state
  runs                  \* the fetchCallRecordsIncrementally calls started so far

endpointVars ==
  <<pc, caller, request, model, retryCount, attempts, outcomes, sleeps,
    result, response, recordsToAnalyze, keywordSearchResults, aborted,
    abortedAt>>

helperVars == <<input, output, applied>>

listingVars == <<listPc, listRequest, storageOutcome, listResponse>>

chatVars ==
  <<now, queryCache, props, isTyping, typingRetryCount, messages, inflight,
    fetches>>

insightsVars ==
  <<selectedAgent, callRecords, loading, loadingState, fetchError,
    filtersLoading, runs>>

\* the state outside route.ts
outerVars == <<listingVars, chatVars, insightsVars>>

\* what the actions of the endpoint leave alone
otherVars == <<helperVars, outerVars>>

vars == <<endpointVars, otherVars>>

----------------------------------------------------------------------------
(* Bounds of the model *)

SmallLen == 3   \* length of a small (sample-sized) record list
MaxMtf == 1     \* largest number of MTF-disposition records in a list
MaxTerms == 1   \* largest number of terms extractKeywordsFromQuery yields

(* Program constants *)

maxRetries == 5
baseDelay == 1000
maxDelay == 30000
backoffMultiplier == 2
FullThreshold == 100
NumCommonTireSizes == 17

LargeModel == "gpt-4o"
SmallModel == "gpt-4o-mini"
DefaultModel == SmallModel
Models == {LargeModel, SmallModel}

----------------------------------------------------------------------------
(* Helpers *)

Min(a, b) == IF a < b THEN a ELSE b

RECURSIVE Pow(_, _)
Pow(b, e) == IF e = 0 THEN 1 ELSE b * Pow(b, e - 1)

----------------------------------------------------------------------------
(* The completion service: what one completions.create call can do.  An    *)
(* error is the object the SDK rejects with: its status (0 when the error  *)
(* carries no status, as a connection error) and its message.              *)

UpstreamErrors ==
  { [status |-> 429, message |-> "rate_limit_exceeded"],
    [status |-> 400, message |-> "context_length_exceeded"],
    [status |-> 400, message |-> "invalid_request"],
    [status |-> 401, message |-> "invalid_api_key"],
    [status |-> 500, message |-> "server_error"],
    [status |-> 0,   message |-> "connection_error"] }

NoError == [status |-> 0, message |-> ""]

TooComplexError ==
  [status |-> 0, message |-> "Query too complex for available models. Please try a more specific question."]

----------------------------------------------------------------------------
(* callOpenAIWithRetry: the decisions of its catch block *)

\* variant: the bound test off by one (retryCount <= maxRetries)
ShouldRetry_OffByOne(error, n) == error.status = 429 /\ n <= maxRetries

\* variant: server errors retried like rate limiting
ShouldRetry_ServerErrors(error, n) ==
  error.status \in {429, 500} /\ n < maxRetries

\* error?.status === 429 && retryCount < RATE_LIMIT_CONFIG.maxRetries
ShouldRetry(error, n) == error.status = 429 /\ n < maxRetries

\* variant: the delay grows linearly instead of exponentially
BackoffDelay_Linear(n) == Min(baseDelay * (n + 1), maxDelay)

\* Math.min(baseDelay * Math.pow(backoffMultiplier, retryCount), maxDelay)
BackoffDelay(n) == Min(baseDelay * Pow(backoffMultiplier, n), maxDelay)

\* error?.status === 400 && error?.message?.includes('context_length_exceeded')
IsContextLength(error) ==
  error.status = 400 /\ error.message = "context_length_exceeded"

\* variant: the downgrade branch taken whatever the model
CanDowngrade_Always(m) == TRUE

\* model === 'gpt-4o'
CanDowngrade(m) == m = LargeModel

Attempt(m, n, slept) == [model |-> m, retryCount |-> n, afterSleep |-> slept]

NoResult == [kind |-> "none", error |-> NoError, model |-> ""]
NoResponse ==
  [status |-> 0, error |-> "", suggestion |-> FALSE, dataPoints |-> 0, model |-> ""]

----------------------------------------------------------------------------
(* POST: the catch block that turns a thrown error into a response *)

StatusFor(error) ==
  IF error.status = 429 THEN 429
  ELSE IF error.status = 400 THEN 400
  ELSE IF error.status = 401 THEN 401
  ELSE 500

MessageFor(error) ==
  IF error.status = 429 THEN "Rate limit exceeded. Please wait a moment and try again."
  ELSE IF error.status = 400 THEN
    (IF error.message # "" THEN error.message
     ELSE "Invalid request. Please try a different question.")
  ELSE IF error.status = 401 THEN "Authentication failed. Please check API configuration."
  ELSE IF error.message # "" THEN error.message
  ELSE "An unexpected error occurred while processing your request."

ErrorResponse(status, message, suggestion) ==
  [status |-> status, error |-> message, suggestion |-> suggestion,
   dataPoints |-> 0, model |-> ""]

\* POST after `await callOpenAIWithRetry(messages)` resolved
SuccessResponse(m) ==
  [status |-> 200, error |-> "", suggestion |-> FALSE,
   dataPoints |-> recordsToAnalyze, model |-> m]

\* callOpenAIWithRetry returns the response of the successful attempt; when
\* POST is the caller it builds the 200 response from it
Return(m) ==
  /\ result' = [kind |-> "returned", error |-> NoError, model |-> m]
  /\ response' = IF caller = "POST" THEN SuccessResponse(m) ELSE response
  /\ pc' = "done"

\* callOpenAIWithRetry throws; when POST is the caller its catch block answers
Throw(error) ==
  /\ result' = [kind |-> "thrown", error |-> error, model |-> ""]
  /\ response' = IF caller = "POST"
                 THEN ErrorResponse(StatusFor(error), MessageFor(error), FALSE)
                 ELSE response
  /\ pc' = "done"

----------------------------------------------------------------------------
(* POST: classification of the question and selection of the records *)

\* order of the topic tests of detectQueryType
TopicOrder ==
  <<"disposition", "sentiment", "agent_performance", "timing",
    "queue_analysis", "summary", "trends">>

\* A question, as the matchers see it: present (a truthy query), mtf
\* (detectMTFQuery), tire (detectTireSizeQuery().isTireQuery), kw (some
\* keywordSearchPatterns entry matches), topics (the topic groups one of whose
\* words the question includes), nTerms (how many terms the question itself
\* contributes to extractedKeywords)
Query(present, mtf, tire, kw, topics, nTerms) ==
  [present |-> present, mtf |-> mtf, tire |-> tire, kw |-> kw,
   topics |-> topics, nTerms |-> nTerms]

MissingQuery == Query(FALSE, FALSE, FALSE, FALSE, {}, 0)

\* variant: the tyre-size test made before the MTF test
detectQueryType_TireFirst(q) ==
  LET isKeywordSearch == q.kw \/ q.tire \/ q.mtf
      nKeywords == IF ~isKeywordSearch THEN 0
                   ELSE IF q.tire THEN NumCommonTireSizes + q.nTerms
                   ELSE q.nTerms
      matched == {i \in 1..Len(TopicOrder) : TopicOrder[i] \in q.topics}
      type == IF q.tire THEN "tire_size_search"
              ELSE IF q.mtf THEN "mtf_analysis"
              ELSE IF isKeywordSearch THEN "keyword_search"
              ELSE IF matched # {}
                   THEN TopicOrder[CHOOSE i \in matched : \A j \in matched : i <= j]
              ELSE "general"
  IN [type |-> type, isKeywordSearch |-> isKeywordSearch,
      nKeywords |-> nKeywords, isTireQuery |-> q.tire, isMTFQuery |-> q.mtf]

detectQueryType(q) ==
  LET isKeywordSearch == q.kw \/ q.tire \/ q.mtf
      nKeywords == IF ~isKeywordSearch THEN 0
                   ELSE IF q.tire THEN NumCommonTireSizes + q.nTerms
                   ELSE q.nTerms
      matched == {i \in 1..Len(TopicOrder) : TopicOrder[i] \in q.topics}
      type == IF q.mtf THEN "mtf_analysis"
              ELSE IF q.tire THEN "tire_size_search"
              ELSE IF isKeywordSearch THEN "keyword_search"
              ELSE IF matched # {}
                   THEN TopicOrder[CHOOSE i \in matched : \A j \in matched : i <= j]
              ELSE "general"
  IN [type |-> type, isKeywordSearch |-> isKeywordSearch,
      nKeywords |-> nKeywords, isTireQuery |-> q.tire, isMTFQuery |-> q.mtf]

\* A record list of the request body: absent, or len records of which mtf
\* have a disposition_title containing 'mtf'
Absent == [present |-> FALSE, len |-> 0, mtf |-> 0]
Records(len, mtf) == [present |-> TRUE, len |-> len, mtf |-> mtf]

\* "Get the complete dataset first": allAvailableRecords and where it came
\* from; source "none" is the branch that answers 400
SelectRecords(req) ==
  IF req.fullRecords.present /\ req.fullRecords.len > FullThreshold
  THEN [source |-> "fullRecords", list |-> req.fullRecords]
  ELSE IF req.cdFullRecords.present /\ req.cdFullRecords.len > FullThreshold
  THEN [source |-> "callData.fullRecords", list |-> req.cdFullRecords]
  ELSE IF req.sampleRecords.present
  THEN [source |-> "sampleRecords", list |-> req.sampleRecords]
  ELSE [source |-> "none", list |-> Absent]

\* the test guarding performKeywordSearch
SearchesKeywords(d) ==
  /\ d.type \in {"keyword_search", "tire_size_search", "mtf_analysis"}
  /\ d.nKeywords > 0

NoSearch == [performed |-> FALSE, recordsSearched |-> 0]

Lens == {0, SmallLen, FullThreshold, FullThreshold + 1}

\* the record lists a request is drawn from: every length of Lens, without
\* and (where the list is not empty) with MTF-disposition records
RecordLists ==
  UNION {{Records(n, m) : m \in {0, Min(n, MaxMtf)}} : n \in Lens}

Queries ==
  {MissingQuery} \cup
  {Query(TRUE, mtf, tire, kw, {}, n) :
     mtf \in BOOLEAN, tire \in BOOLEAN, kw \in BOOLEAN, n \in 0..MaxTerms} \cup
  {Query(TRUE, FALSE, FALSE, FALSE, {"timing", "summary"}, 0)}

Requests ==
  [query : Queries,
   apiKey : BOOLEAN,
   fullRecords : {Absent} \cup {l \in RecordLists : l.len <= FullThreshold => l.mtf = 0},
   cdFullRecords : {Absent, Records(FullThreshold + 1, MaxMtf)},
   sampleRecords : {Absent} \cup {l \in RecordLists : l.len < FullThreshold}]

NoRequest ==
  [query |-> MissingQuery, apiKey |-> FALSE, fullRecords |-> Absent,
   cdFullRecords |-> Absent, sampleRecords |-> Absent]

\* what extractSentiment throws on an array whose first entry is null
NullSentimentError ==
  [status |-> 0, message |-> "Cannot read properties of null (reading 'sentiment')"]

\* POST up to its first suspension: it answers an input error at once, or
\* classifies, selects and searches the records, aggregates them (which throws
\* when analysisThrows), assembles the context and issues the first completion
\* attempt (callOpenAIWithRetry(messages))
PostAnalysing(req, analysisThrows) ==
  /\ pc = "idle"
  /\ caller' = "POST"
  /\ request' = req
  /\ LET d == detectQueryType(req.query)
         all == SelectRecords(req)
         n == IF d.isMTFQuery THEN all.list.mtf ELSE all.list.len
         answer(r) ==
           /\ response' = r
           /\ pc' = "done"
           /\ UNCHANGED <<model, retryCount, attempts, recordsToAnalyze,
                          keywordSearchResults>>
     IN IF ~req.query.present
        THEN answer(ErrorResponse(400, "Query is required", FALSE))
        ELSE IF ~req.apiKey
        THEN answer(ErrorResponse(500, "OpenAI API key not configured", FALSE))
        ELSE IF all.source = "none"
        THEN answer(ErrorResponse(400, "No call records available for analysis", FALSE))
        ELSE IF d.isMTFQuery /\ all.list.mtf = 0
        THEN answer(ErrorResponse(400, "No MTF (Mobile Tyre Fitting) calls found in the dataset.", TRUE))
        ELSE IF analysisThrows
        THEN answer(ErrorResponse(StatusFor(NullSentimentError),
                                  MessageFor(NullSentimentError), FALSE))
        ELSE /\ recordsToAnalyze' = n
             /\ keywordSearchResults' =
                  IF SearchesKeywords(d)
                  THEN [performed |-> TRUE, recordsSearched |-> n]
                  ELSE NoSearch
             /\ model' = DefaultModel
             /\ retryCount' = 0
             /\ attempts' = <<Attempt(DefaultModel, 0, FALSE)>>
             /\ pc' = "awaiting"
             /\ UNCHANGED response
  /\ UNCHANGED <<outcomes, sleeps, result, aborted, abortedAt>>

\* POST on a request whose records are well formed
Post(req) ==
  /\ PostAnalysing(req, FALSE)
  /\ UNCHANGED otherVars

----------------------------------------------------------------------------
(* Actions of the completion invoker *)

\* a direct call callOpenAIWithRetry(messages, m): the first attempt is issued
Invoke(m) ==
  /\ pc = "idle"
  /\ pc' = "awaiting"
  /\ caller' = "direct"
  /\ model' = m
  /\ retryCount' = 0
  /\ attempts' = <<Attempt(m, 0, FALSE)>>
  /\ UNCHANGED <<request, outcomes, sleeps, result, response, recordsToAnalyze,
                 keywordSearchResults, aborted, abortedAt>>
  /\ UNCHANGED otherVars

\* completions.create resolves
AttemptSucceeds ==
  /\ pc = "awaiting"
  /\ outcomes' = Append(outcomes, NoError)
  /\ Return(model)
  /\ UNCHANGED <<caller, request, model, retryCount, attempts, sleeps,
                 recordsToAnalyze, keywordSearchResults, aborted, abortedAt>>
  /\ UNCHANGED otherVars

\* completions.create rejects with error: the catch block
AttemptFails(error) ==
  /\ pc = "awaiting"
  /\ outcomes' = Append(outcomes, error)
  /\ IF ShouldRetry(error, retryCount)
     THEN /\ sleeps' = Append(sleeps, BackoffDelay(retryCount))
          /\ pc' = "sleeping"
          /\ UNCHANGED <<model, attempts, result, response>>
     ELSE IF IsContextLength(error) /\ CanDowngrade(model)
     THEN /\ model' = SmallModel
          /\ attempts' = Append(attempts, Attempt(SmallModel, retryCount, FALSE))
          /\ UNCHANGED <<pc, sleeps, result, response>>
     ELSE /\ Throw(IF IsContextLength(error) THEN TooComplexError ELSE error)
          /\ UNCHANGED <<model, attempts, sleeps>>
  /\ UNCHANGED <<caller, request, retryCount, recordsToAnalyze,
                 keywordSearchResults, aborted, abortedAt>>
  /\ UNCHANGED otherVars

\* the timer of sleep(delay) fires: callOpenAIWithRetry(messages, model, retryCount + 1)
SleepElapses ==
  /\ pc = "sleeping"
  /\ retryCount' = retryCount + 1
  /\ attempts' = Append(attempts, Attempt(model, retryCount + 1, TRUE))
  /\ pc' = "awaiting"
  /\ UNCHANGED <<caller, request, model, outcomes, sleeps, result, response,
                 recordsToAnalyze, keywordSearchResults, aborted, abortedAt>>
  /\ UNCHANGED otherVars

\* the calling context aborts while the invocation is in flight; nothing in
\* route.ts reads the signal
Abort ==
  /\ pc \in {"awaiting", "sleeping"}
  /\ ~aborted
  /\ aborted' = TRUE
  /\ abortedAt' = pc
  /\ UNCHANGED <<pc, caller, request, model, retryCount, attempts, outcomes,
                 sleeps, result, response, recordsToAnalyze,
                 keywordSearchResults>>
  /\ UNCHANGED otherVars

----------------------------------------------------------------------------
(* Specifications *)

InitEndpoint ==
  /\ pc = "idle"
  /\ caller = "none"
  /\ request = NoRequest
  /\ model = DefaultModel
  /\ retryCount = 0
  /\ attempts = <<>>
  /\ outcomes = <<>>
  /\ sleeps = <<>>
  /\ result = NoResult
  /\ response = NoResponse
  /\ recordsToAnalyze = 0
  /\ keywordSearchResults = NoSearch
  /\ aborted = FALSE
  /\ abortedAt = "none"

\* no helper is under study
InitHelper ==
  /\ input = <<>>
  /\ output = <<>>
  /\ applied = "none"

\* no request to the record listing has been made
InitListing ==
  /\ listPc = "idle"
  /\ listRequest = [page |-> "", limit |-> "", countOnly |-> FALSE]
  /\ storageOutcome = [ok |-> TRUE, count |-> 0]
  /\ listResponse = [status |-> 0, error |-> "", suggestion |-> FALSE]

\* the chat component has just mounted; the cache Map is empty
InitChat ==
  /\ now = 0
  /\ queryCache = <<>>
  /\ props = [recordCount |-> 1, loading |-> FALSE]
  /\ isTyping = FALSE
  /\ typingRetryCount = 0
  /\ messages = <<>>
  /\ inflight = <<>>
  /\ fetches = 0

\* InsightsPage has just mounted (page.tsx 23-48)
InitInsights ==
  /\ selectedAgent = ""
  /\ callRecords = <<>>
  /\ loading = TRUE
  /\ loadingState = [isLoading |-> FALSE]
  /\ fetchError = ""
  /\ filtersLoading = TRUE
  /\ runs = <<>>

InitOuter == InitListing /\ InitChat /\ InitInsights

Init ==
  /\ InitEndpoint
  /\ InitHelper
  /\ InitOuter

PostRequest == \E req \in Requests : Post(req)
DirectCall == \E m \in Models : Invoke(m)
UpstreamFailure == \E error \in UpstreamErrors : AttemptFails(error)

\* one request to the query-calls endpoint
Next ==
  \/ PostRequest
  \/ AttemptSucceeds
  \/ UpstreamFailure
  \/ SleepElapses

Spec == Init /\ [][Next]_vars

\* one invocation of callOpenAIWithRetry with either model, in a calling
\* context that may abort
NextInvoker ==
  \/ DirectCall
  \/ AttemptSucceeds
  \/ UpstreamFailure
  \/ SleepElapses
  \/ Abort

SpecInvoker == Init /\ [][NextInvoker]_vars

----------------------------------------------------------------------------
(* Properties of callOpenAIWithRetry, checked under SpecInvoker *)

\* the i-th attempt received the i-th outcome
RateLimited(i) == outcomes[i].status = 429
ContextTooLarge(i) ==
  outcomes[i].status = 400 /\ outcomes[i].message = "context_length_exceeded"
Succeeded(i) == outcomes[i].status = 0 /\ outcomes[i].message = ""
Count429 == Cardinality({i \in 1..Len(outcomes) : RateLimited(i)})
ExpectedDelays == <<1000, 2000, 4000, 8000, 16000>>

RECURSIVE SumSeq(_)
SumSeq(s) == IF s = <<>> THEN 0 ELSE Head(s) + SumSeq(Tail(s))

\* C1: one invocation performs at most 5 rate-limit retries: retryCount never
\* exceeds 5, at most 5 sleeps are scheduled, and once the attempt made with
\* retryCount = 5 fails with HTTP 429 the invocation is over (no attempt
\* pending, no sleep pending) and that 429 error is what it throws.
C1_AtMostFiveRetries ==
  /\ retryCount <= 5
  /\ Len(sleeps) <= 5
  /\ \A i \in 1..Len(outcomes) :
       (RateLimited(i) /\ attempts[i].retryCount = 5) =>
         /\ i = Len(outcomes)
         /\ Len(attempts) = i
         /\ Len(sleeps) = 5
         /\ pc = "done"
         /\ result = [kind |-> "thrown", error |-> outcomes[i], model |-> ""]

C1_Witness ==
  /\ pc = "done"
  /\ result.kind = "thrown"
  /\ result.error.status = 429
  /\ Len(attempts) = 6
  /\ Len(sleeps) = 5

\* C2: an attempt that fails with an error that is neither HTTP 429 nor HTTP
\* 400 context-length-exceeded ends the invocation whatever the retry count:
\* no further attempt, no sleep for it, and that same error is thrown.
C2_OtherErrorsPropagateAtOnce ==
  \A i \in 1..Len(outcomes) :
    (~Succeeded(i) /\ ~RateLimited(i) /\ ~ContextTooLarge(i)) =>
      /\ i = Len(outcomes)
      /\ Len(attempts) = i
      /\ pc = "done"
      /\ result = [kind |-> "thrown", error |-> outcomes[i], model |-> ""]
      /\ Len(sleeps) = Cardinality({j \in 1..(i - 1) : RateLimited(j)})

C2_Witness ==
  /\ pc = "done"
  /\ result.kind = "thrown"
  /\ result.error.status = 401
  /\ retryCount = 3
  /\ Len(sleeps) = 3

\* C3: when the invocation returns after k attempts failed with HTTP 429,
\* k <= 5, no error is surfaced, and it slept exactly once before each retry
\* n = 0..k-1 with the delays 1000, 2000, 4000, 8000, 16000 ms (all <= 30000),
\* so that after k = 2 the total wait is at least 3000 ms.
C3_BackoffThenSuccess ==
  (pc = "done" /\ result.kind = "returned") =>
    /\ Count429 <= 5
    /\ result.error = NoError
    /\ sleeps = SubSeq(ExpectedDelays, 1, Count429)
    /\ \A n \in 1..Len(sleeps) : sleeps[n] <= 30000
    /\ Cardinality({i \in 1..Len(attempts) : attempts[i].afterSleep}) = Count429
    /\ \A i \in 1..Len(attempts) :
         attempts[i].afterSleep => (i > 1 /\ RateLimited(i - 1))
    /\ (Count429 = 2 => SumSeq(sleeps) >= 3000)

C3_Witness ==
  /\ pc = "done"
  /\ result.kind = "returned"
  /\ Len(attempts) = 6
  /\ \A i \in 1..5 : RateLimited(i)
  /\ sleeps = <<1000, 2000, 4000, 8000, 16000>>

\* C4: a context-length failure of an attempt made with 'gpt-4o' is followed
\* at once (no sleep, same retry count) by an attempt with 'gpt-4o-mini'; the
\* model changes at most once in an invocation; a context-length failure on
\* 'gpt-4o-mini' ends the invocation with a thrown error, without another
\* attempt.
C4_DowngradeOnceImmediately ==
  /\ \A i \in 1..Len(outcomes) :
       ContextTooLarge(i) =>
         IF attempts[i].model = "gpt-4o"
         THEN /\ Len(attempts) > i
              /\ attempts[i + 1] =
                   [model |-> "gpt-4o-mini",
                    retryCount |-> attempts[i].retryCount,
                    afterSleep |-> FALSE]
         ELSE /\ i = Len(outcomes)
              /\ Len(attempts) = i
              /\ pc = "done"
              /\ result.kind = "thrown"
  /\ Cardinality({i \in 2..Len(attempts) :
                    attempts[i].model # attempts[i - 1].model}) <= 1

C4_Witness ==
  /\ pc = "done"
  /\ result.kind = "thrown"
  /\ Len(attempts) = 2
  /\ attempts[1].model = "gpt-4o"
  /\ attempts[2].model = "gpt-4o-mini"
  /\ ContextTooLarge(1)
  /\ ContextTooLarge(2)

\* C10: once the calling context has aborted during a backoff sleep, no
\* further completion attempt is issued.
C10_NoAttemptAfterAbortInSleep ==
  [][abortedAt = "sleeping" => Len(attempts') = Len(attempts)]_vars

----------------------------------------------------------------------------
(* Properties of the POST handler, checked under Spec *)

\* C5: when a request's completion call fails with context-length-exceeded
\* and the error is surfaced, exactly one downgrade attempt against a smaller
\* model was made after that failure.
C5_OneDowngradeBeforeSurfacing ==
  (pc = "done" /\ result.kind = "thrown"
     /\ \E i \in 1..Len(outcomes) : ContextTooLarge(i)) =>
    Cardinality({i \in 2..Len(attempts) :
                   /\ ContextTooLarge(i - 1)
                   /\ attempts[i - 1].model = "gpt-4o"
                   /\ attempts[i].model = "gpt-4o-mini"}) = 1

\* C6: when the invoker throws, the response status preserves the kind of
\* the upstream failure it gave up on: 429 for rate limiting (given up on
\* only once the 5 retries are used up), 401 for an auth failure, 400 for a
\* bad request, and 500 for every other failure.
C6_StatusPreservesUpstreamKind ==
  (pc = "done" /\ result.kind = "thrown") =>
    LET upstream == outcomes[Len(outcomes)] IN
      /\ upstream.status = 429 =>
           (response.status = 429 /\ Len(sleeps) = 5 /\ Len(attempts) = 6)
      /\ upstream.status = 401 => response.status = 401
      /\ upstream.status = 400 => response.status = 400
      /\ upstream.status \notin {429, 401, 400} => response.status = 500

\* The mapping of C6 does hold of every failure but context-length-exceeded
\* (the case of C7), where the invoker throws an error of its own that carries
\* no status.
StatusPreservedUnlessTooComplex ==
  (pc = "done" /\ result.kind = "thrown" /\ ~ContextTooLarge(Len(outcomes))) =>
    /\ result.error = outcomes[Len(outcomes)]
    /\ response.status =
         (IF result.error.status \in {429, 401, 400}
          THEN result.error.status ELSE 500)

\* C7: when the context is too large and no smaller model is left (the
\* context-length failure came from 'gpt-4o-mini'), the response status is 400.
C7_TooComplexIs400 ==
  (pc = "done" /\ result.kind = "thrown"
     /\ ContextTooLarge(Len(outcomes))
     /\ attempts[Len(attempts)].model = "gpt-4o-mini") =>
    response.status = 400

\* C8: a request with no question text, or (the API key being configured)
\* with an empty record set - no records in fullRecords and callData's
\* fullRecords and an absent or empty sample - is answered 400 at once and no
\* completion attempt is ever issued for it.
C8_InputErrorsFailFast ==
  LET empty(l) == ~l.present \/ l.len = 0
      noRecords == /\ empty(request.fullRecords)
                   /\ empty(request.cdFullRecords)
                   /\ empty(request.sampleRecords)
  IN (caller = "POST"
        /\ (~request.query.present
              \/ (request.query.present /\ request.apiKey /\ noRecords))) =>
       /\ pc = "done"
       /\ response.status = 400
       /\ attempts = <<>>

\* C9: a question classified as a keyword search for which only the sample
\* records are available (no list of more than 100 records) is answered 400
\* with a suggestion, and neither a keyword search nor a completion attempt is
\* made from the sample.
C9_KeywordSearchNeedsFullData ==
  LET d == detectQueryType(request.query) IN
    (caller = "POST" /\ request.query.present /\ request.apiKey
       /\ d.type = "keyword_search" /\ d.isKeywordSearch
       /\ SelectRecords(request).source = "sampleRecords"
       /\ request.sampleRecords.len > 0) =>
      /\ pc = "done"
      /\ response.status = 400
      /\ response.suggestion
      /\ ~keywordSearchResults.performed
      /\ attempts = <<>>

----------------------------------------------------------------------------
(* Properties of the record selection, checked under Spec *)

\* the request carried a question, a non-empty fullRecords array, and the
\* endpoint has its API key
CarriesFullRecords ==
  /\ caller = "POST"
  /\ request.query.present
  /\ request.apiKey
  /\ request.fullRecords.present
  /\ request.fullRecords.len > 0

\* C23: whenever a request carries a non-empty fullRecords array, the
\* endpoint analyzes exactly those records before any domain filter (for a
\* question that is not an MTF question, dataPoints = fullRecords.length): it
\* never falls back to the callData sample and never answers 'No call records
\* available for analysis'.
C23_FullRecordsAreAnalyzed ==
  CarriesFullRecords =>
    /\ response.error # "No call records available for analysis"
    /\ ~request.query.mtf =>
         /\ attempts # <<>>
         /\ recordsToAnalyze = request.fullRecords.len
         /\ response.status = 200 => response.dataPoints = request.fullRecords.len

\* a fullRecords array of more than 100 records is what the endpoint analyzes
LargeFullRecordsAreAnalyzed ==
  (CarriesFullRecords /\ request.fullRecords.len > FullThreshold) =>
    /\ response.error # "No call records available for analysis"
    /\ ~request.query.mtf =>
         /\ attempts # <<>>
         /\ recordsToAnalyze = request.fullRecords.len
         /\ response.status = 200 => response.dataPoints = request.fullRecords.len

----------------------------------------------------------------------------
(* Properties of a keyword question without terms, checked under Spec *)

\* the request carried a question that matches a keyword-search pattern only
\* (no tyre size, no MTF) and from which extractKeywordsFromQuery drew no term
TermlessKeywordQuestion ==
  /\ caller = "POST"
  /\ request.query.present
  /\ request.apiKey
  /\ request.query.kw /\ ~request.query.tire /\ ~request.query.mtf
  /\ request.query.nTerms = 0
  /\ SelectRecords(request).source # "none"

\* C17: a question that matches a keyword-search pattern but yields no term is
\* classified as a keyword search with an empty term list, and the handler
\* goes on without error with a keyword-search result for it (one with no
\* matching records) rather than with no search result.
C17_TermlessSearchReportsZeroMatches ==
  TermlessKeywordQuestion =>
    LET d == detectQueryType(request.query)
    IN /\ d.type = "keyword_search"
       /\ d.isKeywordSearch
       /\ d.nKeywords = 0
       /\ attempts # <<>>
       /\ keywordSearchResults.performed

\* what does hold: the classification, and that the handler goes on to the
\* completion call; no keyword search is made for the question
TermlessSearchIsSkipped ==
  TermlessKeywordQuestion =>
    LET d == detectQueryType(request.query)
    IN /\ d.type = "keyword_search"
       /\ d.isKeywordSearch
       /\ d.nKeywords = 0
       /\ attempts # <<>>
       /\ keywordSearchResults = NoSearch

----------------------------------------------------------------------------
(* prepareContextForQuery: the size limit on the assembled context         *)
(* (route.ts 3055-3061).  A context is a sequence of characters.           *)

MaxContextLen == 9   \* longest assembled context
MaxBudget == 2       \* largest token budget maxTokens

Alphabet == {"a", "b"}

Strings(n) == UNION {[1..k -> Alphabet] : k \in 0..n}

\* '\n\n[Data truncated due to size limits]'
TruncationMarker ==
  <<"\n", "\n", "[", "D", "a", "t", "a", " ", "t", "r", "u", "n", "c", "a",
    "t", "e", "d", " ", "d", "u", "e", " ", "t", "o", " ", "s", "i", "z",
    "e", " ", "l", "i", "m", "i", "t", "s", "]">>

\* s.substring(0, n) for an integer n >= 0
Substring(s, n) == SubSeq(s, 1, Min(n, Len(s)))

EndsWith(s, suffix) ==
  /\ Len(s) >= Len(suffix)
  /\ SubSeq(s, Len(s) - Len(suffix) + 1, Len(s)) = suffix

\* the estimate compared in whole tokens
TruncateContext_WholeTokens(context, maxTokens) ==
  IF Len(context) \div 4 > maxTokens
  THEN Substring(context, maxTokens * 4) \o TruncationMarker
  ELSE context

\* estimatedTokens = context.length / 4 is a real quotient, so
\* estimatedTokens > maxTokens exactly when context.length > maxTokens * 4
TruncateContext(context, maxTokens) ==
  IF Len(context) > maxTokens * 4
  THEN Substring(context, maxTokens * 4) \o TruncationMarker
  ELSE context

ContextInputs == [context : Strings(MaxContextLen), maxTokens : 0..MaxBudget]

\* prepareContextForQuery returns: the context it assembled, cut to the budget
PrepareContext ==
  /\ applied = "none"
  /\ output' = TruncateContext(input.context, input.maxTokens)
  /\ applied' = "prepareContextForQuery"
  /\ UNCHANGED <<endpointVars, input, outerVars>>

InitContext ==
  /\ InitEndpoint
  /\ input \in ContextInputs
  /\ output = <<>>
  /\ applied = "none"
  /\ InitOuter

NextContext == PrepareContext

SpecContext == InitContext /\ [][NextContext]_vars

\* C11: whenever the assembled context is longer than maxTokens*4 characters,
\* prepareContextForQuery returns its first maxTokens*4 characters followed by
\* the truncation marker, so the result ends with the marker and is exactly
\* maxTokens*4 + len(marker) long; otherwise it returns the context unchanged.
C11_TruncationMarker ==
  applied = "prepareContextForQuery" =>
    LET c == input.context
        m == input.maxTokens
    IN IF Len(c) > m * 4
       THEN /\ output = SubSeq(c, 1, m * 4) \o TruncationMarker
            /\ EndsWith(output, TruncationMarker)
            /\ Len(output) = m * 4 + Len(TruncationMarker)
       ELSE output = c

\* a context of more than 4 characters is cut to a budget of one token
C11_Witness ==
  /\ applied = "prepareContextForQuery"
  /\ input.maxTokens = 1
  /\ Len(input.context) > 4
  /\ Len(output) = 4 + Len(TruncationMarker)
  /\ EndsWith(output, TruncationMarker)

----------------------------------------------------------------------------
(* The stored values of a record's JSON columns (value: any), and the two  *)
(* normalisers extractNumericValue and extractSentiment (route.ts          *)
(* 2183-2229).                                                             *)

Undefined == [t |-> "undefined"]
Null == [t |-> "null"]
Num(n) == [t |-> "num", n |-> n]
Str(s) == [t |-> "str", s |-> s]
\* a string given by its words and the blanks between them
Text(words) == [t |-> "text", words |-> words]
Bool(b) == [t |-> "bool", b |-> b]
Arr(items) == [t |-> "arr", items |-> items]
\* an object with the properties sentiment, seconds and minutes (Undefined
\* where the object has no such property)
Obj(sentiment, seconds, minutes) ==
  [t |-> "obj", sentiment |-> sentiment, seconds |-> seconds, minutes |-> minutes]

\* !value is false
Truthy(v) ==
  CASE v.t \in {"undefined", "null"} -> FALSE
    [] v.t = "num" -> v.n # 0
    [] v.t = "str" -> v.s # ""
    [] v.t = "bool" -> v.b
    [] v.t = "text" -> v.words # <<>>
    [] OTHER -> TRUE

\* v[name] for a v that is neither null nor undefined
Get(v, name) ==
  IF v.t # "obj" THEN Undefined
  ELSE CASE name = "sentiment" -> v.sentiment
         [] name = "seconds" -> v.seconds
         [] name = "minutes" -> v.minutes

Returned(v) == [threw |-> FALSE, value |-> v]
Thrown(e) == [threw |-> TRUE, value |-> Str(e)]

\* the texts a string column holds in this model
DurationObjectText == "{\"seconds\":30,\"minutes\":2}"
NegativeSecondsText == "{\"seconds\":-5}"
SentimentArrayText == "[{\"sentiment\":\"Positive\"}]"

\* JSON.parse(text): the value, or a SyntaxError
JSONParse(text) ==
  CASE text = DurationObjectText -> Returned(Obj(Undefined, Num(30), Num(2)))
    [] text = NegativeSecondsText -> Returned(Obj(Undefined, Num(-5), Undefined))
    [] text = SentimentArrayText ->
         Returned(Arr(<<Obj(Str("Positive"), Undefined, Undefined)>>))
    [] text = "-5" -> Returned(Num(-5))
    [] text = "90" -> Returned(Num(90))
    [] text = "null" -> Returned(Null)
    [] OTHER -> Thrown("SyntaxError")

\* parseFloat(text): the number its longest numeric prefix denotes, or NaN
NaN == [t |-> "NaN"]
ParseFloat(text) ==
  CASE text \in {"-5", "-5 sec"} -> Num(-5)
    [] text \in {"90", "90s"} -> Num(90)
    [] OTHER -> NaN

extractNumericValue(value) ==
  IF ~Truthy(value) THEN Returned(Num(0))
  ELSE IF value.t = "num" THEN Returned(value)
  ELSE IF value.t \notin {"str", "obj", "arr"} THEN Returned(Num(0))
  ELSE
    LET parsedDuration ==
          IF value.t = "str" THEN JSONParse(value.s) ELSE Returned(value)
        \* const { seconds, minutes = 0 } = parsedDuration and the two tests
        tried ==
          IF parsedDuration.threw THEN parsedDuration
          ELSE IF parsedDuration.value.t \in {"null", "undefined"}
          THEN Thrown("TypeError")
          ELSE
            LET seconds == Get(parsedDuration.value, "seconds")
                got == Get(parsedDuration.value, "minutes")
                minutes == IF got.t = "undefined" THEN Num(0) ELSE got
            IN IF seconds.t # "num" \/ seconds.n < 0 THEN Returned(Num(0))
               ELSE IF minutes.t # "num" \/ minutes.n < 0 THEN Returned(Num(0))
               ELSE Returned(Num(minutes.n * 60 + seconds.n))
    IN IF ~tried.threw THEN tried
       ELSE IF value.t = "str"
       THEN LET parsed == ParseFloat(value.s)
            IN IF parsed.t = "NaN" THEN Returned(Num(0)) ELSE Returned(parsed)
       ELSE Returned(Num(0))

extractSentiment(sentimentAnalysis) ==
  IF ~Truthy(sentimentAnalysis) THEN Returned(Str("Unknown"))
  ELSE IF sentimentAnalysis.t = "arr" /\ Len(sentimentAnalysis.items) > 0
  THEN LET first == sentimentAnalysis.items[1]
       IN IF first.t \in {"null", "undefined"} THEN Thrown("TypeError")
          ELSE IF Truthy(Get(first, "sentiment"))
          THEN Returned(Get(first, "sentiment"))
          ELSE Returned(Str("Unknown"))
  ELSE IF sentimentAnalysis.t = "str" THEN Returned(sentimentAnalysis)
  ELSE IF Truthy(Get(sentimentAnalysis, "sentiment"))
  THEN Returned(Get(sentimentAnalysis, "sentiment"))
  ELSE Returned(Str("Unknown"))

\* what a call_duration column may hold
DurationValues ==
  {Undefined, Null, Num(-5), Num(0), Num(90), Bool(TRUE), Arr(<<>>)} \cup
  {Str(text) : text \in {DurationObjectText, NegativeSecondsText, "-5", "90",
                         "null", "-5 sec", "90s", "n/a", ""}} \cup
  {Obj(Undefined, seconds, minutes) :
     seconds \in {Undefined, Num(-5), Num(30), Str("30")},
     minutes \in {Undefined, Null, Num(-1), Num(2)}}

SentimentEntry(label) == Obj(label, Undefined, Undefined)

\* what a sentiment_analysis column may hold
SentimentValues ==
  {Undefined, Null, Arr(<<>>), Arr(<<Null>>), Str(""), Str("Negative"),
   Str("mixed"), Str(SentimentArrayText)} \cup
  {Arr(<<SentimentEntry(label)>>) :
     label \in {Undefined, Str("Positive"), Str("POSITIVE")}} \cup
  {SentimentEntry(label) : label \in {Undefined, Str("Neutral")}}

----------------------------------------------------------------------------
(* performKeywordSearch (route.ts 2458-2593).  A transcript is a sequence  *)
(* of words and blanks; a term matches a transcript once per occurrence of *)
(* the term as a word (the expansion of a term into variations and the     *)
(* fuzzy patterns only add further ways to match).                         *)

MaxRecords == 3   \* longest record list handed to a helper

CallRecord(transcript, disposition, sentiment, duration) ==
  [transcript_text |-> transcript, disposition_title |-> disposition,
   sentiment_analysis |-> sentiment, call_duration |-> duration]

RECURSIVE TrimStart(_)
TrimStart(words) ==
  IF words # <<>> /\ Head(words) = " " THEN TrimStart(Tail(words)) ELSE words

RECURSIVE TrimEnd(_)
TrimEnd(words) ==
  IF words # <<>> /\ words[Len(words)] = " "
  THEN TrimEnd(SubSeq(words, 1, Len(words) - 1))
  ELSE words

\* text.trim()
Trim(text) == Text(TrimEnd(TrimStart(text.words)))

\* record.transcript_text && record.transcript_text.trim().length
HasTranscript(record) ==
  /\ Truthy(record.transcript_text)
  /\ Len(Trim(record.transcript_text).words) # 0

\* transcript.match(regex).length for one term
Occurrences(text, term) ==
  Cardinality({i \in 1..Len(text.words) : text.words[i] = term})

RECURSIVE RecordMatchCount(_, _)
RecordMatchCount(record, searchTerms) ==
  IF searchTerms = <<>> THEN 0
  ELSE Occurrences(record.transcript_text, Head(searchTerms))
         + RecordMatchCount(record, Tail(searchTerms))

\* the terms of searchTerms found in the record
MatchedVariations(record, searchTerms) ==
  {i \in 1..Len(searchTerms) :
     Occurrences(record.transcript_text, searchTerms[i]) > 0}

Ratio(num, den) == [num |-> num, den |-> den]

\* the quotient without its guard
MatchPercentage_Unguarded(matching, withTranscripts) ==
  Ratio(matching * 100, withTranscripts)

\* recordsWithTranscripts.length > 0 ?
\*   (matchingRecords.length / recordsWithTranscripts.length) * 100 : 0
MatchPercentage(matching, withTranscripts) ==
  IF withTranscripts > 0
  THEN Ratio(matching * 100, withTranscripts)
  ELSE Ratio(0, 1)

\* the comparator of matchingRecords.sort is negative for (a, b)
MoreRelevant(a, b) ==
  \/ a.matchCount > b.matchCount
  \/ a.matchCount = b.matchCount /\ a.matchedVariations > b.matchedVariations

RECURSIVE InsertByRelevance(_, _)
InsertByRelevance(x, sorted) ==
  IF sorted = <<>> THEN <<x>>
  ELSE IF MoreRelevant(x, Head(sorted)) THEN <<x>> \o sorted
  ELSE <<Head(sorted)>> \o InsertByRelevance(x, Tail(sorted))

RECURSIVE SortByRelevance(_)
SortByRelevance(s) ==
  IF s = <<>> THEN <<>>
  ELSE InsertByRelevance(s[Len(s)], SortByRelevance(SubSeq(s, 1, Len(s) - 1)))

\* the positions of a list, in order
Indices(records) == [i \in 1..Len(records) |-> i]

performKeywordSearch(records, searchTerms) ==
  LET recordsWithTranscripts ==
        SelectSeq(Indices(records), LAMBDA i : HasTranscript(records[i]))
      matching ==
        SelectSeq(recordsWithTranscripts,
                  LAMBDA i : RecordMatchCount(records[i], searchTerms) > 0)
      entry(i) ==
        [id |-> i,
         sentiment |-> extractSentiment(records[i].sentiment_analysis).value,
         duration |-> extractNumericValue(records[i].call_duration).value,
         matchCount |-> RecordMatchCount(records[i], searchTerms),
         matchedVariations |->
           Cardinality(MatchedVariations(records[i], searchTerms))]
      matchingRecords == [k \in 1..Len(matching) |-> entry(matching[k])]
  IN IF \E k \in 1..Len(matching) :
          extractSentiment(records[matching[k]].sentiment_analysis).threw
     THEN Thrown("TypeError")
     ELSE Returned(
       [totalMatches |->
          SumSeq([k \in 1..Len(matching) |-> matchingRecords[k].matchCount]),
        searchTerms |-> searchTerms,
        matchingRecords |-> SortByRelevance(matchingRecords),
        searchStats |->
          [totalRecordsSearched |-> Len(records),
           recordsWithTranscripts |-> Len(recordsWithTranscripts),
           matchPercentage |->
             MatchPercentage(Len(matching), Len(recordsWithTranscripts))]])

Transcripts ==
  {Null, Text(<<>>), Text(<<" ">>), Text(<<"brake">>),
   Text(<<" ", "tyre", " ", "brake", " ", "tyre">>)}

SearchRecords ==
  {CallRecord(transcript, Null, sentiment, Null) :
     transcript \in Transcripts, sentiment \in {Null, Arr(<<Null>>)}}

SearchTermLists == {<<>>, <<"brake">>, <<"tyre">>, <<"brake", "tyre">>}

ListsOf(S, n) == UNION {[1..k -> S] : k \in 0..n}

SearchInputs ==
  [records : ListsOf(SearchRecords, MaxRecords), searchTerms : SearchTermLists]

KeywordSearch ==
  /\ applied = "none"
  /\ output' = performKeywordSearch(input.records, input.searchTerms)
  /\ applied' = "performKeywordSearch"
  /\ UNCHANGED <<endpointVars, input, outerVars>>

InitSearch ==
  /\ InitEndpoint
  /\ input \in SearchInputs
  /\ output = <<>>
  /\ applied = "none"
  /\ InitOuter

NextSearch == KeywordSearch

SpecSearch == InitSearch /\ [][NextSearch]_vars

\* the transcript holds at least one word
NonBlank(record) ==
  /\ record.transcript_text.t = "text"
  /\ \E i \in 1..Len(record.transcript_text.words) :
       record.transcript_text.words[i] # " "

\* some term of the list occurs in the transcript
Mentions(record, searchTerms) ==
  \E i \in 1..Len(record.transcript_text.words), j \in 1..Len(searchTerms) :
    record.transcript_text.words[i] = searchTerms[j]

\* C12: the statistics performKeywordSearch reports for a record list R and a
\* term list satisfy: totalRecordsSearched = |R|; recordsWithTranscripts is the
\* number of records with a non-blank transcript, hence <= |R|; the matching
\* records are the non-blank records mentioning a term, hence no more than
\* recordsWithTranscripts; matchPercentage is |matchingRecords| /
\* recordsWithTranscripts * 100 when recordsWithTranscripts > 0 and exactly 0
\* otherwise, never a quotient by zero.
C12_SearchDenominators ==
  (applied = "performKeywordSearch" /\ ~output.threw) =>
    LET R == input.records
        stats == output.value.searchStats
        withTranscripts == {i \in 1..Len(R) : NonBlank(R[i])}
        matching ==
          {i \in withTranscripts : Mentions(R[i], input.searchTerms)}
        reported == Len(output.value.matchingRecords)
    IN /\ stats.totalRecordsSearched = Len(R)
       /\ stats.recordsWithTranscripts = Cardinality(withTranscripts)
       /\ stats.recordsWithTranscripts <= Len(R)
       /\ reported = Cardinality(matching)
       /\ reported <= stats.recordsWithTranscripts
       /\ stats.matchPercentage.den > 0
       /\ IF stats.recordsWithTranscripts > 0
          THEN stats.matchPercentage.num * stats.recordsWithTranscripts
                 = reported * 100 * stats.matchPercentage.den
          ELSE stats.matchPercentage.num = 0

\* three records: one without a transcript, one matching, one not matching
C12_Witness ==
  /\ applied = "performKeywordSearch"
  /\ ~output.threw
  /\ Len(input.records) = 3
  /\ output.value.searchStats.recordsWithTranscripts = 2
  /\ Len(output.value.matchingRecords) = 1
  /\ output.value.searchStats.matchPercentage = Ratio(100, 2)

----------------------------------------------------------------------------
(* preprocessCallData (route.ts 2741-2882): the tallies over the columns   *)
(* call_duration, disposition_title and sentiment_analysis.  The records   *)
(* of the model carry no agent_username, queue_name or                     *)
(* initiation_timestamp, so every record is tallied under the agent        *)
(* 'Unknown' and timePatterns stays empty.                                 *)

\* record.disposition_title || 'Unknown'
DispositionKey(record) ==
  IF Truthy(record.disposition_title)
  THEN record.disposition_title.s
  ELSE "Unknown"

\* a tally that passes over the records without a title
Tally_TitledOnly(records, key) ==
  Cardinality({i \in 1..Len(records) :
                 /\ Truthy(records[i].disposition_title)
                 /\ DispositionKey(records[i]) = key})

\* dispositions[key] after the loop over the records
Tally(records, key) ==
  Cardinality({i \in 1..Len(records) : DispositionKey(records[i]) = key})

SentimentTally(records, key) ==
  Cardinality({i \in 1..Len(records) :
                 extractSentiment(records[i].sentiment_analysis).value.s = key})

\* { count, percentage: (count / totalCalls) * 100 }
Breakdown(count, totalCalls) ==
  [count |-> count, percentage |-> Ratio(count * 100, totalCalls)]

\* totalCalls > 0 ? total / totalCalls : 0
Average(total, totalCalls) ==
  IF totalCalls > 0 THEN Ratio(total, totalCalls) ELSE Ratio(0, 1)

preprocessCallData(records) ==
  LET totalCalls == Len(records)
      duration(i) == extractNumericValue(records[i].call_duration).value.n
      totalDuration == SumSeq([i \in 1..totalCalls |-> duration(i)])
      dispositions == {DispositionKey(records[i]) : i \in 1..totalCalls}
      sentiments ==
        {extractSentiment(records[i].sentiment_analysis).value.s :
           i \in 1..totalCalls}
      sentimentCount(key) ==
        IF key \in sentiments THEN SentimentTally(records, key) ELSE 0
  IN IF \E i \in 1..totalCalls :
          extractSentiment(records[i].sentiment_analysis).threw
     THEN Thrown("TypeError")
     ELSE Returned(
       [totalCalls |-> totalCalls,
        avgCallDuration |-> Average(totalDuration, totalCalls),
        dispositionBreakdown |->
          [key \in dispositions |-> Breakdown(Tally(records, key), totalCalls)],
        sentimentBreakdown |->
          [key \in sentiments |->
             Breakdown(SentimentTally(records, key), totalCalls)],
        agentMetrics |->
          [agent \in IF totalCalls > 0 THEN {"Unknown"} ELSE {} |->
             [totalCalls |-> totalCalls,
              avgDuration |-> Average(totalDuration, totalCalls),
              sentimentScore |->
                Ratio((sentimentCount("Positive") - sentimentCount("Negative"))
                        * 100, totalCalls)]],
        performanceIndicators |->
          [callsOver15Min |->
             Cardinality({i \in 1..totalCalls : duration(i) > 900}),
           callsUnder2Min |->
             Cardinality({i \in 1..totalCalls : duration(i) < 120})]])

Dispositions == {Null, Str("Resolved"), Str("Escalated")}

MetricRecords ==
  {CallRecord(Null, disposition, sentiment, duration) :
     disposition \in Dispositions,
     sentiment \in {Null, Arr(<<Null>>), Str("Negative")},
     duration \in {Num(-5), Str(DurationObjectText)}}

MetricInputs == [records : ListsOf(MetricRecords, MaxRecords)]

PreprocessCallData ==
  /\ applied = "none"
  /\ output' = preprocessCallData(input.records)
  /\ applied' = "preprocessCallData"
  /\ UNCHANGED <<endpointVars, input, outerVars>>

InitMetrics ==
  /\ InitEndpoint
  /\ input \in MetricInputs
  /\ output = <<>>
  /\ applied = "none"
  /\ InitOuter

NextMetrics == PreprocessCallData

SpecMetrics == InitMetrics /\ [][NextMetrics]_vars

\* the sum of f[k].count, or of the numerators of f[k].percentage, over keys
RECURSIVE SumCounts(_, _)
SumCounts(f, keys) ==
  IF keys = {} THEN 0
  ELSE LET k == CHOOSE x \in keys : TRUE
       IN f[k].count + SumCounts(f, keys \ {k})

RECURSIVE SumPercentages(_, _)
SumPercentages(f, keys) ==
  IF keys = {} THEN 0
  ELSE LET k == CHOOSE x \in keys : TRUE
       IN f[k].percentage.num + SumPercentages(f, keys \ {k})

----------------------------------------------------------------------------
(* The normalisers applied to the stored value of one column *)

ColumnInputs == [call_duration : DurationValues, sentiment_analysis : SentimentValues]

ExtractNumericValue ==
  /\ applied = "none"
  /\ output' = extractNumericValue(input.call_duration)
  /\ applied' = "extractNumericValue"
  /\ UNCHANGED <<endpointVars, input, outerVars>>

ExtractSentiment ==
  /\ applied = "none"
  /\ output' = extractSentiment(input.sentiment_analysis)
  /\ applied' = "extractSentiment"
  /\ UNCHANGED <<endpointVars, input, outerVars>>

InitColumns ==
  /\ InitEndpoint
  /\ input \in ColumnInputs
  /\ output = <<>>
  /\ applied = "none"
  /\ InitOuter

NextColumns ==
  \/ ExtractNumericValue
  \/ ExtractSentiment

SpecColumns == InitColumns /\ [][NextColumns]_vars

\* C14: for every stored duration value extractNumericValue returns, without
\* throwing, a number of seconds >= 0 (negative numbers, negative components
\* and malformed values all giving 0).
C14_DurationNeverNegative ==
  applied = "extractNumericValue" =>
    /\ ~output.threw
    /\ output.value.t = "num"
    /\ output.value.n >= 0

\* what does hold: the call never throws, and an object (or the JSON text of
\* an object) with a negative or non-numeric component gives 0
DurationOfObjectNeverNegative ==
  applied = "extractNumericValue" =>
    /\ ~output.threw
    /\ output.value.t = "num"
    /\ (input.call_duration.t \in {"undefined", "null", "obj", "arr", "bool"}
          => output.value.n >= 0)
    /\ (input.call_duration.t = "str" /\ ~JSONParse(input.call_duration.s).threw
          => output.value.n >= 0)

SentimentLabels == {"Positive", "Negative", "Neutral", "Unknown"}

\* C16: for every stored sentiment value extractSentiment returns one of the
\* four labels 'Positive', 'Negative', 'Neutral', 'Unknown'.
C16_SentimentIsOneOfFourLabels ==
  (applied = "extractSentiment" /\ ~output.threw) =>
    /\ output.value.t = "str"
    /\ output.value.s \in SentimentLabels

\* what does hold: an absent value, an empty array, and an entry or object
\* without a label give 'Unknown'; every other value is handed back as stored
SentimentIsStoredLabelOrUnknown ==
  (applied = "extractSentiment" /\ ~output.threw) =>
    LET v == input.sentiment_analysis
        stored ==
          CASE v.t = "str" -> v
            [] v.t = "arr" /\ v.items # <<>> -> Get(v.items[1], "sentiment")
            [] OTHER -> Get(v, "sentiment")
    IN output.value = IF Truthy(stored) THEN stored ELSE Str("Unknown")

----------------------------------------------------------------------------
(* POST on a question of no special type over sample records given column  *)
(* by column: the handler aggregates them with preprocessCallData          *)
(* (route.ts 3209) before it assembles the context and calls the model.    *)

WellFormedRecord ==
  CallRecord(Null, Str("Resolved"), Arr(<<SentimentEntry(Str("Positive"))>>),
             Obj(Undefined, Num(30), Num(2)))

PipelineRecords ==
  {WellFormedRecord,
   [WellFormedRecord EXCEPT !.call_duration = Str("n/a")],
   [WellFormedRecord EXCEPT !.call_duration = Arr(<<>>)],
   [WellFormedRecord EXCEPT !.sentiment_analysis = Arr(<<SentimentEntry(Undefined)>>)],
   [WellFormedRecord EXCEPT !.sentiment_analysis = Arr(<<Null>>)]}

PipelineQueries ==
  {Query(TRUE, FALSE, FALSE, FALSE, topics, 0) : topics \in {{}, {"summary"}}}

SampleRequest(q, records) ==
  [query |-> q, apiKey |-> TRUE, fullRecords |-> Absent,
   cdFullRecords |-> Absent, sampleRecords |-> Records(Len(records), 0)]

PostSampleRecords(q, records) ==
  /\ PostAnalysing(SampleRequest(q, records), preprocessCallData(records).threw)
  /\ input' = [records |-> records]
  /\ output' = preprocessCallData(records)
  /\ applied' = "preprocessCallData"
  /\ UNCHANGED outerVars

PostRecords ==
  \E q \in PipelineQueries, records \in ListsOf(PipelineRecords, MaxRecords) :
    PostSampleRecords(q, records)

NextPipeline ==
  \/ PostRecords
  \/ AttemptSucceeds
  \/ UpstreamFailure
  \/ SleepElapses

SpecPipeline == Init /\ [][NextPipeline]_vars

\* the sentiment column is an array whose first entry is null or undefined
FirstEntryNull(record) ==
  /\ record.sentiment_analysis.t = "arr"
  /\ record.sentiment_analysis.items # <<>>
  /\ record.sentiment_analysis.items[1].t \in {"null", "undefined"}

\* C15: a record with a malformed duration or sentiment column never makes
\* the request fail: the aggregation returns, no error of the handler's own
\* reaches the caller, and the completion call is made.
C15_MalformedRecordsNeverFail ==
  (caller = "POST" /\ applied = "preprocessCallData") =>
    /\ ~output.threw
    /\ attempts # <<>>
    /\ response.status = 500 => outcomes # <<>>

\* what does hold: short of a null first sentiment entry, malformed columns
\* are normalised and the completion call is made
MalformedColumnsProceedUnlessNullEntry ==
  (caller = "POST" /\ applied = "preprocessCallData"
     /\ \A i \in 1..Len(input.records) : ~FirstEntryNull(input.records[i])) =>
    /\ ~output.threw
    /\ attempts # <<>>
    /\ output.value.totalCalls = Len(input.records)

----------------------------------------------------------------------------
(* The record-listing endpoint (src/unnamed/part_004, GET of lines         *)
(* 272-431).  An error message is a sequence of words; includes() is the   *)
(* test for a run of consecutive words.                                    *)

MaxLimit == 50000

\* message.includes(phrase)
Includes(message, phrase) ==
  \E i \in 0..(Len(message) - Len(phrase)) :
    SubSeq(message, i + 1, i + Len(phrase)) = phrase

\* parseInt(text) for the texts of the model
ParseInt(text) ==
  CASE text = "1" -> 1
    [] text = "2" -> 2
    [] text = "10" -> 10
    [] text = "100" -> 100
    [] text = "60000" -> 60000

\* searchParams.get(name) || fallback
Param(text, fallback) == IF text = "" THEN fallback ELSE text

\* a failure of the storage query: returned as { error } or thrown
\* (instanceOfError: the thrown value is an Error); timeout records what went
\* wrong in the storage layer
StorageError(thrown, instanceOfError, message, timeout) ==
  [ok |-> FALSE, thrown |-> thrown, instanceOfError |-> instanceOfError,
   message |-> message, timeout |-> timeout]

StorageErrors ==
  {StorageError(FALSE, FALSE,
     <<"canceling", "statement", "due", "to", "statement", "timeout">>, TRUE),
   StorageError(FALSE, FALSE,
     <<"canceling", "statement", "due", "to", "user", "request">>, FALSE),
   StorageError(FALSE, FALSE,
     <<"relation", "call_records", "does", "not", "exist">>, FALSE),
   StorageError(FALSE, FALSE, <<>>, FALSE),
   StorageError(TRUE, TRUE,
     <<"The", "operation", "was", "aborted", "due", "to", "timeout">>, TRUE),
   StorageError(TRUE, TRUE, <<"fetch", "failed">>, FALSE),
   StorageError(TRUE, FALSE, <<"fetch", "failed">>, FALSE)}

StorageResults == [ok : {TRUE}, count : {0, 5, 150}]

ListResponse(status, error, suggestion) ==
  [status |-> status, error |-> error, suggestion |-> suggestion]

\* the catch block of GET
ListCatch(outcome) ==
  IF outcome.instanceOfError /\ Includes(outcome.message, <<"timeout">>)
  THEN ListResponse(408,
         "Request timeout - please try again with more specific filters", TRUE)
  ELSE ListResponse(500, "Internal server error", FALSE)

\* if (error) { ... } after the page query
PageError(outcome) ==
  IF \/ Includes(outcome.message, <<"timeout">>)
     \/ Includes(outcome.message, <<"canceling", "statement">>)
  THEN ListResponse(408,
         "Query timeout - try reducing the date range or adding more filters",
         TRUE)
  ELSE ListResponse(500, "Failed to fetch call records", FALSE)

\* Math.ceil(a / b) for b > 0
CeilDiv(a, b) == (a + b - 1) \div b

Pagination(page, limit, total) ==
  [status |-> 200, error |-> "", suggestion |-> FALSE, page |-> page,
   limit |-> limit, total |-> total,
   totalPages |-> IF limit > 0 THEN CeilDiv(total, limit) ELSE 0,
   hasNext |-> limit > 0 /\ (page - 1) * limit + limit < total,
   hasPrev |-> limit > 0 /\ page > 1]

ListRequests == [page : {"", "2"}, limit : {"", "10", "60000"}, countOnly : BOOLEAN]

\* GET up to `await countQuery` / `await query`
GET(params) ==
  /\ listPc = "idle"
  /\ listRequest' = params
  /\ listPc' = "querying"
  /\ UNCHANGED <<endpointVars, helperVars, insightsVars, chatVars, storageOutcome,
                 listResponse>>

\* the storage query settles and GET answers
QuerySettles(outcome) ==
  /\ listPc = "querying"
  /\ storageOutcome' = outcome
  /\ listPc' = "done"
  /\ LET page == ParseInt(Param(listRequest.page, "1"))
         limit == Min(ParseInt(Param(listRequest.limit, "100")), MaxLimit)
     IN listResponse' =
          IF ~outcome.ok /\ outcome.thrown THEN ListCatch(outcome)
          ELSE IF listRequest.countOnly
          THEN IF ~outcome.ok
               THEN ListResponse(500, "Failed to fetch record count", FALSE)
               ELSE Pagination(1, 0, outcome.count)
          ELSE IF ~outcome.ok THEN PageError(outcome)
          ELSE Pagination(page, limit, outcome.count)
  /\ UNCHANGED <<endpointVars, helperVars, insightsVars, chatVars, listRequest>>

ListCall == \E params \in ListRequests : GET(params)
StorageAnswers == \E outcome \in StorageErrors \cup StorageResults : QuerySettles(outcome)

NextListing ==
  \/ ListCall
  \/ StorageAnswers

SpecListing == Init /\ [][NextListing]_vars

\* C18: when the storage query for a page of call records fails, the listing
\* endpoint answers 408 if the failure is a timeout and 500 if it is any other
\* failure, never the other way round.
C18_TimeoutIs408OthersAre500 ==
  (listPc = "done" /\ ~listRequest.countOnly /\ ~storageOutcome.ok) =>
    listResponse.status = IF storageOutcome.timeout THEN 408 ELSE 500

\* what does hold: a failed page query is answered 408 or 500 by the wording
\* of the error alone
PageFailureStatusFollowsMessage ==
  (listPc = "done" /\ ~listRequest.countOnly /\ ~storageOutcome.ok) =>
    listResponse.status =
      IF \/ Includes(storageOutcome.message, <<"timeout">>)
              /\ (storageOutcome.thrown => storageOutcome.instanceOfError)
         \/ Includes(storageOutcome.message, <<"canceling", "statement">>)
              /\ ~storageOutcome.thrown
      THEN 408 ELSE 500

----------------------------------------------------------------------------
(* The chat client CallRecordsChat (src/unnamed/part_005): the answer      *)
(* cache of lines 401-436 and handleSendMessage / attemptQuery of lines    *)
(* 738-875.  A question is its wording together with whether it has        *)
(* capitals and surrounding blanks.                                        *)

MaxSends == 2     \* questions handleSendMessage accepts

CACHE_DURATION == 7200000
MaxClientRetries == 5

Question(wording, capitals, padding) ==
  [wording |-> wording, capitals |-> capitals, padding |-> padding]

ToLowerCase(q) == [q EXCEPT !.capitals = FALSE]
TrimBlanks(q) == [q EXCEPT !.padding = FALSE]

\* `${query.toLowerCase().trim()}_${recordCount}`
CacheKey(query, recordCount) ==
  [text |-> TrimBlanks(ToLowerCase(query)), recordCount |-> recordCount]

\* for (const [key, value] of queryCache.entries()) ... queryCache.delete(key)
Sweep(cache) ==
  [key \in {k \in DOMAIN cache : ~(now - cache[k].timestamp > CACHE_DURATION)}
     |-> cache[key]]

\* a lookup that ignores the age of the entry
IsFresh_Always(cache, key) == key \in DOMAIN cache

\* cached && Date.now() - cached.timestamp < CACHE_DURATION
IsFresh(cache, key) ==
  key \in DOMAIN cache /\ now - cache[key].timestamp < CACHE_DURATION

\* queryCache.set(cacheKey, { response, metadata, timestamp: Date.now() })
setCachedResponse(cache, query, recordCount, answer) ==
  LET cacheKey == CacheKey(query, recordCount)
  IN [key \in DOMAIN cache \cup {cacheKey} |->
        IF key = cacheKey
        THEN [response |-> answer, timestamp |-> now]
        ELSE cache[key]]

\* a message of the conversation: kind is "question", "cached", "answer" or
\* "error"; content is the question it belongs to; answer numbers the chain
\* whose response it shows (0 for a question or an error)
Message(type, kind, content, answer) ==
  [type |-> type, kind |-> kind, content |-> content, answer |-> answer]

\* one attemptQuery chain: the question and record count its closure holds,
\* the retryAttempt of its innermost call (0 once the chain has finished) and
\* whether it is "fetching", "delaying" or "done"
Chain(query, recordCount, retryAttempt, phase) ==
  [query |-> query, recordCount |-> recordCount,
   retryAttempt |-> retryAttempt, phase |-> phase]

Outstanding == {i \in 1..Len(inflight) : inflight[i].phase # "done"}

\* what the endpoint answers a POST with: status, and whether the body has
\* an error field
EndpointResponses ==
  {[status |-> 200, error |-> FALSE], [status |-> 200, error |-> TRUE],
   [status |-> 429, error |-> TRUE], [status |-> 500, error |-> TRUE]}

RawQuestions ==
  {Question("top agents", FALSE, FALSE), Question("top agents", TRUE, TRUE),
   Question("busiest hour", FALSE, FALSE)}

\* the parent passes a list of one or of two records; its loading flag is
\* down whenever the user can act
PropsValues ==
  {[recordCount |-> 1, loading |-> FALSE], [recordCount |-> 2, loading |-> FALSE]}

\* the instants at which something happens: the start, and one millisecond
\* before, exactly, and one millisecond after CACHE_DURATION later
Instants == {0, CACHE_DURATION - 1, CACHE_DURATION, CACHE_DURATION + 1}

Sent == Cardinality({i \in 1..Len(messages) : messages[i].type = "user"})

\* handleSendMessage(queryText) up to its first suspension
handleSendMessage(queryText) ==
  /\ ~props.loading
  /\ ~isTyping
  /\ Sent < MaxSends
  /\ LET cacheKey == CacheKey(queryText, props.recordCount)
         userMessage == Message("user", "question", queryText, 0)
     IN IF IsFresh(queryCache, cacheKey)
        THEN /\ messages' = messages \o
                  <<userMessage,
                    Message("assistant", "cached", queryText,
                            queryCache[cacheKey].response)>>
             /\ UNCHANGED <<queryCache, isTyping, typingRetryCount, inflight,
                            fetches>>
        ELSE /\ queryCache' = Sweep(queryCache)
             /\ messages' = Append(messages, userMessage)
             /\ isTyping' = TRUE
             /\ typingRetryCount' = 0
             /\ inflight' = Append(inflight,
                  Chain(queryText, props.recordCount, 0, "fetching"))
             /\ fetches' = fetches + 1
  /\ UNCHANGED <<endpointVars, helperVars, insightsVars, listingVars, now, props>>

\* variant: the test of the re-post off by one
ShouldRepost_Inclusive(r, retryAttempt) ==
  r.status = 429 /\ retryAttempt <= MaxClientRetries

\* response.status === 429 && retryAttempt < 5
ShouldRepost(r, retryAttempt) ==
  r.status = 429 /\ retryAttempt < MaxClientRetries

\* attemptQuery after its awaits, the fetch of chain i having settled with
\* response r
FetchSettling(i, r) ==
  /\ i \in 1..Len(inflight)
  /\ inflight[i].phase = "fetching"
  /\ LET chain == inflight[i]
         finish(message) ==
           /\ messages' = Append(messages, message)
           /\ isTyping' = FALSE
           /\ typingRetryCount' = 0
           /\ inflight' = [inflight EXCEPT ![i].phase = "done",
                                           ![i].retryAttempt = 0]
     IN IF ShouldRepost(r, chain.retryAttempt)
        THEN /\ inflight' = [inflight EXCEPT ![i].phase = "delaying"]
             /\ UNCHANGED <<queryCache, isTyping, typingRetryCount, messages>>
        ELSE IF r.status # 200 \/ r.error
        THEN /\ finish(Message("assistant", "error", chain.query, 0))
             /\ UNCHANGED queryCache
        ELSE /\ finish(Message("assistant", "answer", chain.query, i))
             /\ queryCache' =
                  setCachedResponse(queryCache, chain.query, chain.recordCount, i)
  /\ UNCHANGED <<now, props, fetches>>

\* the fetch of chain i settles with response r
FetchSettles(i, r) ==
  /\ FetchSettling(i, r)
  /\ UNCHANGED <<endpointVars, helperVars, insightsVars, listingVars>>

\* the timer of the 429 delay fires: setRetryCount(retryAttempt + 1), then
\* `return attemptQuery(retryAttempt + 1)` posts again and, the returned
\* promise not being awaited, the finally block of this frame runs at once
DelayElapses(i) ==
  /\ i \in 1..Len(inflight)
  /\ inflight[i].phase = "delaying"
  /\ inflight' = [inflight EXCEPT ![i].retryAttempt = @ + 1,
                                  ![i].phase = "fetching"]
  /\ fetches' = fetches + 1
  /\ isTyping' = FALSE
  /\ typingRetryCount' = 0
  /\ UNCHANGED <<endpointVars, helperVars, insightsVars, listingVars, now, props, queryCache,
                 messages>>

\* time passes
Tick(instant) ==
  /\ instant > now
  /\ now' = instant
  /\ UNCHANGED <<endpointVars, helperVars, insightsVars, listingVars, queryCache, props,
                 isTyping, typingRetryCount, messages, inflight, fetches>>

\* the parent renders the component with other records or another loading flag
Render(p) ==
  /\ p # props
  /\ props' = p
  /\ UNCHANGED <<endpointVars, helperVars, insightsVars, listingVars, now, queryCache,
                 isTyping, typingRetryCount, messages, inflight, fetches>>

Send == \E q \in RawQuestions : handleSendMessage(q)
EndpointAnswers ==
  \E i \in 1..MaxSends, r \in EndpointResponses : FetchSettles(i, r)
TimerFires == \E i \in 1..MaxSends : DelayElapses(i)
TimePasses == \E instant \in Instants : Tick(instant)
PropsChange == \E p \in PropsValues : Render(p)

NextChat ==
  \/ Send
  \/ EndpointAnswers
  \/ TimerFires
  \/ TimePasses
  \/ PropsChange

SpecChat == Init /\ [][NextChat]_vars

\* age of the entry stored under key
Age(cache, key) == now - cache[key].timestamp

\* C19: a question is answered from queryCache - the stored answer shown, no
\* request sent - only when an entry with the same normalized text and record
\* count is younger than CACHE_DURATION; otherwise (no such entry, or one not
\* younger) a request is sent and the sweep leaves no entry older than
\* CACHE_DURATION in the cache, removing no other; and an entry is stored only
\* as the successful answer of the endpoint is appended, never with an error.
C19_CacheServesOnlyFreshAnswers ==
  [][LET n == Len(messages)
         asked == Len(messages') > n /\ messages'[n + 1].type = "user"
         hit == asked /\ Len(messages') = n + 2
         miss == asked /\ Len(messages') = n + 1
         key == [text |-> Question(messages'[n + 1].content.wording, FALSE, FALSE),
                 recordCount |-> props.recordCount]
         written == {k \in DOMAIN queryCache' :
                       k \notin DOMAIN queryCache \/ queryCache'[k] # queryCache[k]}
     IN /\ hit =>
             /\ key \in DOMAIN queryCache
             /\ Age(queryCache, key) < CACHE_DURATION
             /\ messages'[n + 2].kind = "cached"
             /\ messages'[n + 2].answer = queryCache[key].response
             /\ fetches' = fetches
             /\ queryCache' = queryCache
        /\ miss =>
             /\ key \in DOMAIN queryCache => Age(queryCache, key) >= CACHE_DURATION
             /\ fetches' = fetches + 1
             /\ DOMAIN queryCache' =
                  {k \in DOMAIN queryCache : Age(queryCache, k) <= CACHE_DURATION}
             /\ written = {}
        /\ ~asked =>
             \A k \in written :
               /\ Len(messages') = n + 1
               /\ messages'[n + 1].kind = "answer"
               /\ messages'[n + 1].answer = queryCache'[k].response
               /\ k.text.wording = messages'[n + 1].content.wording
               /\ DOMAIN queryCache' = DOMAIN queryCache \cup {k}
    ]_vars

\* the question 'top agents' was answered by the endpoint at instant 0 and,
\* asked again with capitals and blanks when the entry is one millisecond short
\* of CACHE_DURATION, was answered from the cache without a second request
C19_Witness ==
  /\ Len(messages) = 4
  /\ messages[1].content = Question("top agents", FALSE, FALSE)
  /\ messages[2].kind = "answer"
  /\ messages[3].content = Question("top agents", TRUE, TRUE)
  /\ messages[4].kind = "cached"
  /\ messages[4].answer = messages[2].answer
  /\ now = CACHE_DURATION - 1
  /\ fetches = 1
  /\ DOMAIN queryCache = {CacheKey(messages[1].content, props.recordCount)}
  /\ queryCache[CacheKey(messages[1].content, props.recordCount)].timestamp = 0

\* C20: from the moment a question is sent until its answer or error message
\* is appended - the waits and re-posts after a 429 included - isTyping is
\* true, so no second request is started while one is outstanding.
C20_TypingUntilAnswered ==
  /\ Outstanding # {} => isTyping
  /\ Cardinality(Outstanding) <= 1

\* what does hold: as long as no chain has posted again after a 429 (every
\* chain has sent one request), isTyping is true while a request is
\* outstanding and there is only one
TypingUntilFirstRepost ==
  fetches = Len(inflight) =>
    /\ Outstanding # {} => isTyping
    /\ Cardinality(Outstanding) <= 1

----------------------------------------------------------------------------
(* One question from the chat client to the endpoint and back: the client  *)
(* of part_005 posts to the POST handler of route.ts, which answers after  *)
(* its completion attempts; a 429 answer makes the client post again.      *)
(* Across the runs of the endpoint `outcomes` keeps every upstream outcome *)
(* received for the question.                                              *)

\* the bodies attemptQuery posts (part_005 790-809): the question typed,
\* fullRecords the records of the page (few, or more than 100), and callData
\* with sampleRecords (the first records; prepareSmartDataEnhanced 665-679) or,
\* for the types 'disposition', 'agent_performance' and 'summary', without
\* (566-661); the endpoint has an API key or not
ClientRequests ==
  {[query |-> Query(TRUE, FALSE, FALSE, FALSE, {}, 0), apiKey |-> key,
    fullRecords |-> Records(n, 0), cdFullRecords |-> Absent,
    sampleRecords |-> l] :
     key \in BOOLEAN, n \in {SmallLen, FullThreshold + 1},
     l \in {Absent, Records(SmallLen, 0)}}

\* the user asks the one question
Ask ==
  /\ Sent = 0
  /\ Send

\* the endpoint receives the request a chain is waiting on
Receive ==
  /\ \E i \in 1..Len(inflight) : inflight[i].phase = "fetching"
  /\ \E req \in ClientRequests : Post(req)

\* the answer of the endpoint reaches the client, which goes on after its
\* `await fetch`; the endpoint is free for the next request
ResponseArrives(i) ==
  /\ pc = "done"
  /\ FetchSettling(i, [status |-> response.status,
                       error |-> response.error # ""])
  /\ pc' = "idle"
  /\ UNCHANGED <<caller, request, model, retryCount, attempts, outcomes,
                 sleeps, result, response, recordsToAnalyze,
                 keywordSearchResults, aborted, abortedAt>>
  /\ UNCHANGED <<helperVars, insightsVars, listingVars>>

Answered == \E i \in 1..MaxSends : ResponseArrives(i)

NextQuestion ==
  \/ Ask
  \/ Receive
  \/ AttemptSucceeds
  \/ UpstreamFailure
  \/ SleepElapses
  \/ Answered
  \/ TimerFires

\* every request, upstream call and timer that is pending eventually settles
SpecQuestion == Init /\ [][NextQuestion]_vars /\ WF_vars(NextQuestion)

\* completions.create calls made for the question so far
CompletionAttempts == Len(outcomes) + IF pc = "awaiting" THEN 1 ELSE 0

\* the question has its answer or its error message
Concluded ==
  /\ Len(messages) = 2
  /\ messages[2].type = "assistant"
  /\ messages[2].kind \in {"answer", "error"}
  /\ Outstanding = {}

\* C22: one user question always ends with an assistant answer or an error
\* message, after at most 5 re-posts of the client (6 requests), at most 6
\* completion attempts per run of the endpoint, and so at most 36 completion
\* attempts in all.
C22_QuestionTerminatesWithin36Attempts ==
  /\ [](/\ fetches <= MaxClientRetries + 1
        /\ Len(attempts) <= maxRetries + 1
        /\ CompletionAttempts <= (MaxClientRetries + 1) * (maxRetries + 1)
        /\ CompletionAttempts <= 36)
  /\ (Sent = 1) ~> Concluded

\* every request of the client was answered 429 after six rate-limited
\* attempts, and the sixth 429 answer was shown as the error message
C22_Witness ==
  /\ Concluded
  /\ messages[2].kind = "error"
  /\ fetches = 6
  /\ Len(outcomes) = 36
  /\ \A k \in 1..36 : outcomes[k].status = 429

----------------------------------------------------------------------------
(* The insights page (src/src/app/insights/page.tsx): records are fetched   *)
(* in batches by fetchCallRecordsIncrementally, which an effect starts     *)
(* whenever a filter changes.  Of the filters the model keeps the agent,   *)
(* whose buttons (CallLogFilters.tsx 250-293) carry no disabled attribute. *)
(* A list of records is modelled by the batches it was built from: each    *)
(* batch names the filter and the page it was fetched under and its size.  *)

MaxFetches == 3

BATCH_SIZE == 2000

MAX_RECORDS_FOR_INSIGHTS == 20000

\* the agents the filter offers: "" is 'All Agents'
uniqueAgents == {"", "agentA", "agentB"}

\* pagination.total of the listing endpoint under each filter
TotalUnder(agent) ==
  CASE agent = "" -> 4500
    [] agent = "agentA" -> 1500
    [] OTHER -> 0

\* result.data of the listing endpoint for one page of BATCH_SIZE records
PageUnder(agent, page) ==
  [agent |-> agent, page |-> page,
   count |-> Min(BATCH_SIZE,
                 IF TotalUnder(agent) > BATCH_SIZE * (page - 1)
                   THEN TotalUnder(agent) - BATCH_SIZE * (page - 1) ELSE 0)]

TotalBatches(agent) ==
  CeilDiv(Min(TotalUnder(agent), MAX_RECORDS_FOR_INSIGHTS), BATCH_SIZE)

RECURSIVE RecordCount(_)
RecordCount(batches) ==
  IF batches = <<>> THEN 0
  ELSE batches[1].count + RecordCount(Tail(batches))

\* one call of fetchCallRecordsIncrementally: the filter its closure holds,
\* where it is suspended, and its locals
Run(agent, at, batch, allRecords) ==
  [agent |-> agent, at |-> at, batch |-> batch, allRecords |-> allRecords]

\* lines 52-71: the call runs up to its first await
fetchCallRecordsIncrementally(agent) ==
  /\ loading' = TRUE
  /\ fetchError' = ""
  /\ callRecords' = <<>>
  /\ runs' = Append(runs, Run(agent, "count", 0, <<>>))

\* lines 157-165: catch and finally
FetchThrows(i, message) ==
  /\ fetchError' = message
  /\ loadingState' = [isLoading |-> FALSE]
  /\ loading' = FALSE
  /\ runs' = [runs EXCEPT ![i].at = "done"]
  /\ UNCHANGED callRecords

\* lines 155 and 164: the loop is left
FetchCompletes(i, allRecords) ==
  /\ loadingState' = [isLoading |-> FALSE]
  /\ loading' = FALSE
  /\ runs' = [runs EXCEPT ![i].at = "done", ![i].allRecords = allRecords]

\* fetchFilterOptions finishes (197-199); the effect of 208-220 then runs
FilterOptionsLoaded ==
  /\ filtersLoading
  /\ filtersLoading' = FALSE
  /\ fetchCallRecordsIncrementally(selectedAgent)
  /\ UNCHANGED <<selectedAgent, loadingState>>
  /\ UNCHANGED <<endpointVars, helperVars, listingVars, chatVars>>

\* an agent button is clicked: handleAgentChange (242-244), re-render, and
\* the effect of 208-220 with the new closure
handleAgentChange(agent) ==
  /\ ~filtersLoading
  /\ fetchError = ""
  /\ agent # selectedAgent
  /\ Len(runs) < MaxFetches
  /\ selectedAgent' = agent
  /\ fetchCallRecordsIncrementally(agent)
  /\ UNCHANGED <<loadingState, filtersLoading>>
  /\ UNCHANGED <<endpointVars, helperVars, listingVars, chatVars>>

\* the count request of run i settles (71-122)
CountSettles(i, ok) ==
  /\ runs[i].at = "count"
  /\ IF ~ok THEN FetchThrows(i, "HTTP fetchError! status: 500")
     ELSE IF TotalUnder(runs[i].agent) = 0
       THEN /\ loading' = FALSE
            /\ runs' = [runs EXCEPT ![i].at = "done"]
            /\ UNCHANGED <<fetchError, loadingState, callRecords>>
       ELSE /\ loadingState' = [isLoading |-> TRUE]
            /\ runs' = [runs EXCEPT ![i].at = "page", ![i].batch = 1]
            /\ UNCHANGED <<fetchError, loading, callRecords>>
  /\ UNCHANGED <<selectedAgent, filtersLoading>>
  /\ UNCHANGED <<endpointVars, helperVars, listingVars, chatVars>>

\* the request for page runs[i].batch settles (122-155)
PageSettles(i, ok) ==
  /\ runs[i].at = "page"
  /\ IF ~ok THEN FetchThrows(i, "HTTP fetchError! status: 500")
     ELSE LET allRecords ==
                Append(runs[i].allRecords,
                       PageUnder(runs[i].agent, runs[i].batch))
          IN /\ callRecords' = allRecords
             /\ IF runs[i].batch < TotalBatches(runs[i].agent)
                  THEN /\ runs' = [runs EXCEPT ![i].at = "delay",
                                               ![i].allRecords = allRecords]
                       /\ UNCHANGED <<loading, loadingState>>
                  ELSE FetchCompletes(i, allRecords)
             /\ UNCHANGED fetchError
  /\ UNCHANGED <<selectedAgent, filtersLoading>>
  /\ UNCHANGED <<endpointVars, helperVars, listingVars, chatVars>>

\* the 100 ms pause between two batches ends (145-153, 102-122)
BatchDelayElapses(i) ==
  /\ runs[i].at = "delay"
  /\ IF \/ RecordCount(runs[i].allRecords) >= MAX_RECORDS_FOR_INSIGHTS
        \/ runs[i].allRecords[Len(runs[i].allRecords)].count < BATCH_SIZE
       THEN FetchCompletes(i, runs[i].allRecords)
       ELSE /\ runs' = [runs EXCEPT ![i].at = "page",
                                    ![i].batch = runs[i].batch + 1]
            /\ UNCHANGED <<loading, loadingState>>
  /\ UNCHANGED <<selectedAgent, callRecords, fetchError, filtersLoading>>
  /\ UNCHANGED <<endpointVars, helperVars, listingVars, chatVars>>

AgentChosen == \E agent \in uniqueAgents : handleAgentChange(agent)

CountAnswers == \E i \in DOMAIN runs, ok \in BOOLEAN : CountSettles(i, ok)

PageAnswers == \E i \in DOMAIN runs, ok \in BOOLEAN : PageSettles(i, ok)

PauseEnds == \E i \in DOMAIN runs : BatchDelayElapses(i)

NextInsights ==
  \/ FilterOptionsLoaded
  \/ AgentChosen
  \/ CountAnswers
  \/ PageAnswers
  \/ PauseEnds

SpecInsights == Init /\ [][NextInsights]_vars

\* the records the listing holds under a filter, as the page fetches them
FetchedUnder(agent) ==
  [page \in 1..TotalBatches(agent) |-> PageUnder(agent, page)]

\* the page shows records, not the error panel, and reports no loading
Settled == ~loading /\ ~loadingState.isLoading /\ fetchError = "" /\ runs # <<>>

\* C21: whenever loading is false the displayed callRecords are exactly the
\* records fetched under the currently selected filters, and the fetch that
\* was started under them has finished: a fetch started under earlier
\* filter values never overwrites the records of a later one nor clears its
\* loading flag.
C21_DisplayedRecordsMatchFilters ==
  Settled =>
    /\ callRecords = FetchedUnder(selectedAgent)
    /\ runs[Len(runs)].at = "done"

\* a fetch that no other fetch overlaps does show its own records
SingleFetchShowsItsRecords ==
  (Settled /\ Len(runs) = 1) =>
    /\ callRecords = FetchedUnder(selectedAgent)
    /\ runs[1].at = "done"

----------------------------------------------------------------------------
(* The classifier on the words of a question (route.ts 1893-1911,          *)
(* 1948-2003, 2234-2455).  A question is the sequence of its tokens, a     *)
(* token being a word or a phrase between double quotes; a term is the     *)
(* sequence of its words.  A word is a string; its length, its lower-case  *)
(* spelling and the literals it contains are given for the words of the    *)
(* model.  A pattern is matched on whole tokens: literals joined by \s* or *)
(* .? are looked for in neighbouring words, literals joined by .* in a     *)
(* word and a later one.                                                   *)

MaxWords == 3

MaxSearchTerms == 15

COMMON_TIRE_SIZES ==
  <<"195/65R15", "205/55R16", "215/60R16", "215/55R17", "225/45R17",
    "195/60R14", "255/45R19", "245/40R20", "285/35R20", "195/65/15",
    "205/55/16", "215/60/16", "215/55/17", "225/45/17", "195/60/14",
    "245/40/20", "285/35/20">>

Plain(word) == [quoted |-> FALSE, words |-> <<word>>]
QuotedPhrase(words) == [quoted |-> TRUE, words |-> words]

\* word.length
Length(word) ==
  CASE word \in {"for", "195"} -> 3
    [] word \in {"tyre", "size", "time"} -> 4
    [] word \in {"agent", "queue", "trend", "65r15"} -> 5
    [] word \in {"mobile", "search", "refund", "Refund"} -> 6
    [] word \in {"fitting", "outcome", "summary"} -> 7
    [] word \in {"sentiment", "195/65R15", "195/65r15"} -> 9

\* word.toLowerCase()
LowerCase(word) ==
  CASE word = "Refund" -> "refund"
    [] word = "195/65R15" -> "195/65r15"
    [] OTHER -> word

Lower(term) == [i \in 1..Len(term) |-> LowerCase(term[i])]

\* word.replace(/[^\w\s]/g, ' ').split(/\s+/)
SplitAtPunctuation(word) ==
  IF word = "195/65r15" THEN <<"195", "65r15">> ELSE <<word>>

\* /^\d{3}\/\d{2}R?\d{2}$/i
IsTireSize(word) == LowerCase(word) = "195/65r15"

\* literal occurs in word, at its start, at its end
WordHas(word, literal) ==
  \/ word = literal
  \/ <<word, literal>> \in
       {<<"tyre", "tyr">>, <<"outcome", "out">>, <<"sentiment", "time">>}

WordStarts(word, literal) ==
  \/ word = literal
  \/ <<word, literal>> \in {<<"tyre", "tyr">>, <<"outcome", "out">>}

WordEnds(word, literal) == word = literal

RECURSIVE WordsOf(_)
WordsOf(query) ==
  IF query = <<>> THEN <<>>
  ELSE Head(query).words \o WordsOf(Tail(query))

\* query.toLowerCase(), word by word
LowerWords(query) == Lower(WordsOf(query))

\* the parts of a pattern: a set of spellings, and what joins it to the part
\* before it
Starting(spellings) == [gap |-> "first", spell |-> spellings]
Adjoining(spellings) == [gap |-> "blanks", spell |-> spellings]
Later(spellings) == [gap |-> "any", spell |-> spellings]

RECURSIVE MatchAt(_, _, _, _)
MatchAt(words, i, pattern, k) ==
  LET part == pattern[k]
      last == k = Len(pattern)
      joinedBefore == part.gap = "blanks"
      joinedAfter == ~last /\ pattern[k + 1].gap = "blanks"
  IN /\ \E literal \in part.spell :
          /\ WordHas(words[i], literal)
          /\ joinedBefore => WordStarts(words[i], literal)
          /\ joinedAfter => WordEnds(words[i], literal)
     /\ \/ last
        \/ /\ joinedAfter
           /\ i < Len(words)
           /\ MatchAt(words, i + 1, pattern, k + 1)
        \/ /\ ~joinedAfter
           /\ \E j \in (i + 1)..Len(words) : MatchAt(words, j, pattern, k + 1)

\* pattern.test(query)
Matches(pattern, query) ==
  \E i \in 1..Len(LowerWords(query)) : MatchAt(LowerWords(query), i, pattern, 1)

mtfPatterns ==
  {<<Starting({"mobile"}), Adjoining({"tyre", "tire"}), Adjoining({"fitting"})>>,
   <<Starting({"mobile"}), Adjoining({"tyre", "tire"}), Adjoining({"service"})>>,
   <<Starting({"mobile"}), Adjoining({"tyre", "tire"}), Adjoining({"appointment"})>>,
   <<Starting({"mobile"}), Adjoining({"tyre", "tire"}), Adjoining({"booking"})>>,
   <<Starting({"mtf"}), Adjoining({"appointment"})>>,
   <<Starting({"mtf"}), Adjoining({"booking"})>>,
   <<Starting({"mtf"}), Adjoining({"service"})>>,
   <<Starting({"mobile"}), Later({"fitting"}), Later({"appointment"})>>,
   <<Starting({"mobile"}), Later({"service"}), Later({"appointment"})>>,
   <<Starting({"on"}), Adjoining({"site"}), Later({"tyre"})>>,
   <<Starting({"on"}), Adjoining({"site"}), Later({"tire"})>>,
   <<Starting({"home"}), Later({"tyre"}), Later({"service"})>>,
   <<Starting({"home"}), Later({"tire"}), Later({"service"})>>,
   <<Starting({"mobile"}), Later({"tyre"}), Later({"installation"})>>,
   <<Starting({"mobile"}), Later({"tire"}), Later({"installation"})>>}

detectMTFQuery(query) == \E pattern \in mtfPatterns : Matches(pattern, query)

\* without the direct size pattern /\d{3}\/\d{2}R?\d{2}/i
tireSizePatterns ==
  {<<Starting({"tyr", "tyre"}), Adjoining({"size"})>>,
   <<Starting({"tir", "tire"}), Adjoining({"size"})>>,
   <<Starting({"stock"}), Later({"tyre"})>>,
   <<Starting({"stock"}), Later({"tire"})>>,
   <<Starting({"out"}), Adjoining({"of"}), Adjoining({"stock"}), Later({"tyre"})>>,
   <<Starting({"out"}), Adjoining({"of"}), Adjoining({"stock"}), Later({"tire"})>>,
   <<Starting({"unavailable"}), Later({"tyre"})>>,
   <<Starting({"unavailable"}), Later({"tire"})>>,
   <<Starting({"common"}), Later({"tyre"}), Later({"size"})>>,
   <<Starting({"common"}), Later({"tire"}), Later({"size"})>>,
   <<Starting({"popular"}), Later({"tyre"})>>,
   <<Starting({"popular"}), Later({"tire"})>>}

detectTireSizeQuery(query) ==
  [isTireQuery |->
     \/ \E pattern \in tireSizePatterns : Matches(pattern, query)
     \/ \E i \in 1..Len(WordsOf(query)) : IsTireSize(WordsOf(query)[i]),
   detectedSizes |-> SelectSeq(WordsOf(query), IsTireSize)]

\* without /".*"/ and the three patterns that begin with \b\w+\s+\w+\b
keywordSearchPatterns ==
  {<<Starting({"how"}), Adjoining({"many"}), Later({"call"}), Later({"contain"})>>,
   <<Starting({"how"}), Adjoining({"many"}), Later({"call"}), Later({"mention"})>>,
   <<Starting({"how"}), Adjoining({"many"}), Later({"call"}), Later({"include"})>>,
   <<Starting({"how"}), Adjoining({"many"}), Later({"call"}), Later({"about"})>>,
   <<Starting({"count"}), Later({"call"}), Later({"contain"})>>,
   <<Starting({"count"}), Later({"call"}), Later({"mention"})>>,
   <<Starting({"count"}), Later({"call"}), Later({"with"})>>,
   <<Starting({"search"}), Later({"for"})>>,
   <<Starting({"find"}), Later({"call"}), Later({"with"})>>,
   <<Starting({"call"}), Later({"about"})>>,
   <<Starting({"call"}), Later({"regarding"})>>,
   <<Starting({"call"}), Later({"discussing"})>>,
   <<Starting({"tyr", "tyre"}), Adjoining({"size"})>>,
   <<Starting({"tir", "tire"}), Adjoining({"size"})>>,
   <<Starting({"stock"}), Later({"tyre"})>>,
   <<Starting({"stock"}), Later({"tire"})>>,
   <<Starting({"out"}), Adjoining({"of"}), Adjoining({"stock"})>>,
   <<Starting({"unavailable"}), Later({"tyre"})>>,
   <<Starting({"unavailable"}), Later({"tire"})>>,
   <<Starting({"common"}), Later({"tyre"})>>,
   <<Starting({"common"}), Later({"tire"})>>,
   <<Starting({"mobile"}), Later({"tyre"}), Later({"fitting"})>>,
   <<Starting({"mobile"}), Later({"tire"}), Later({"fitting"})>>,
   <<Starting({"mobile"}), Later({"service"})>>,
   <<Starting({"mtf"})>>,
   <<Starting({"reasons"}), Later({"not"}), Later({"getting"})>>,
   <<Starting({"why"}), Later({"not"}), Later({"getting"})>>,
   <<Starting({"problems"}), Later({"with"}), Later({"appointment"})>>}

\* /\b\w+\s+\w+\b.*offer/i, ...issue, ...problem: two words, and later the
\* literal
TwoWordsThen(query, literal) ==
  \E i \in 1..Len(query), j \in 1..Len(LowerWords(query)) :
    /\ i + 1 <= Len(query)
    /\ ~query[i].quoted /\ ~query[i + 1].quoted
    /\ j > Len(WordsOf(SubSeq(query, 1, i + 1)))
    /\ WordHas(LowerWords(query)[j], literal)

\* keywordSearchPatterns.some(pattern => pattern.test(query))
MatchesKeywordPattern(query) ==
  \/ \E pattern \in keywordSearchPatterns : Matches(pattern, query)
  \/ \E i \in 1..Len(query) : query[i].quoted
  \/ \E literal \in {"offer", "issue", "problem"} : TwoWordsThen(query, literal)

\* the words lowerQuery.includes() looks for, by the type they give
TopicWords ==
  [topic \in {TopicOrder[i] : i \in 1..Len(TopicOrder)} |->
     CASE topic = "disposition" -> {"disposition", "outcome"}
       [] topic = "sentiment" -> {"sentiment", "satisfaction"}
       [] topic = "agent_performance" -> {"agent", "performance"}
       [] topic = "timing" -> {"time", "duration"}
       [] topic = "queue_analysis" -> {"queue", "department"}
       [] topic = "summary" -> {"summary", "overview"}
       [] topic = "trends" -> {"trend", "pattern"}]

Topics(query) ==
  {topic \in DOMAIN TopicWords :
     \E literal \in TopicWords[topic], i \in 1..Len(LowerWords(query)) :
       WordHas(LowerWords(query)[i], literal)}

----------------------------------------------------------------------------
(* extractKeywordsFromQuery (2336-2455) *)

\* the words the first replace() of 2370 removes, and the pairs of words
CommonWords ==
  {"count", "find", "search", "what", "where", "when", "call", "calls",
   "record", "records", "include", "included", "contain", "mentione",
   "mentioned", "about", "with", "have", "were", "that", "this", "they",
   "them", "from", "and", "or", "the", "a", "an", "is", "are", "was", "be",
   "been", "being", "for", "offer", "offers", "offered", "reasons", "why",
   "not", "getting", "problems"}

CommonPairs == {<<"how", "many">>, <<"show", "me">>}

RECURSIVE RemoveCommonWords(_)
RemoveCommonWords(words) ==
  IF words = <<>> THEN <<>>
  ELSE IF Len(words) >= 2 /\ SubSeq(words, 1, 2) \in CommonPairs
  THEN RemoveCommonWords(SubSeq(words, 3, Len(words)))
  ELSE IF Head(words) \in CommonWords THEN RemoveCommonWords(Tail(words))
  ELSE <<Head(words)>> \o RemoveCommonWords(Tail(words))

RECURSIVE SplitAll(_)
SplitAll(words) ==
  IF words = <<>> THEN <<>>
  ELSE SplitAtPunctuation(Head(words)) \o SplitAll(Tail(words))

\* the words of cleanQuery that are longer than 2
SignificantWords(query) ==
  LET unquoted == SelectSeq(query, LAMBDA token : ~token.quoted)
  IN SelectSeq(SplitAll(RemoveCommonWords(LowerWords(unquoted))),
               LAMBDA word : Length(word) > 2)

AutomotiveWords ==
  {"wheel", "tire", "tyre", "brake", "oil", "engine", "alignment", "service",
   "repair", "quote", "warranty", "appointment", "battery", "transmission",
   "filter", "fluid", "stock", "size", "mobile", "fitting"}

ServiceWords ==
  {"customer", "billing", "account", "refund", "cancel", "support", "help",
   "delivery", "payment", "schedule"}

ShortQuotedWords ==
  {"fee", "pay", "buy", "new", "old", "bad", "mad", "oil", "gas", "air"}

ShortWords == ShortQuotedWords \cup {"tire", "tyre", "mtf"}

HasWordOf(term, wordSet) == \E i \in 1..Len(term) : term[i] \in wordSet

\* words.join(' ').length
RECURSIVE JoinedLength(_)
JoinedLength(term) ==
  IF term = <<>> THEN 0
  ELSE IF Len(term) = 1 THEN Length(term[1])
  ELSE Length(term[1]) + 1 + JoinedLength(Tail(term))

\* keywords.push(term); processedTerms.add(term.toLowerCase())
Push(st, term) ==
  [keywords |-> Append(st.keywords, term),
   processedTerms |-> st.processedTerms \cup {Lower(term)}]

\* the forEach loops that add single words: each word not yet processed that
\* is longer than minLength or one of the short words
RECURSIVE AddWords(_, _, _, _)
AddWords(st, words, minLength, short) ==
  IF words = <<>> THEN st
  ELSE LET word == Head(words)
           add == /\ Lower(<<word>>) \notin st.processedTerms
                  /\ Length(word) > minLength \/ LowerCase(word) \in short
       IN AddWords(IF add THEN Push(st, <<word>>) ELSE st,
                   Tail(words), minLength, short)

\* 2343-2361
RECURSIVE AddQuotedPhrases(_, _)
AddQuotedPhrases(st, phrases) ==
  IF phrases = <<>> THEN st
  ELSE LET cleaned == Head(phrases).words
           phraseWords == SelectSeq(cleaned, LAMBDA word : Length(word) > 2)
       IN AddQuotedPhrases(
            AddWords(Push(st, cleaned), phraseWords, 3, ShortQuotedWords),
            Tail(phrases))

\* 2378-2422, for the index i (from 1) and those after it
RECURSIVE AddPhrases(_, _, _)
AddPhrases(st, words, i) ==
  IF i > Len(words) - 1 THEN st
  ELSE LET phrase2 == SubSeq(words, i, i + 1)
           phrase3 == SubSeq(words, i, Min(i + 2, Len(words)))
           meaningful2 ==
             /\ JoinedLength(phrase2) > 5
             /\ Lower(phrase2) \notin st.processedTerms
             /\ \/ HasWordOf(phrase2, AutomotiveWords)
                \/ HasWordOf(phrase2, ServiceWords)
                \/ \A k \in 1..2 : Length(phrase2[k]) > 4
           st2 == IF meaningful2
                  THEN AddWords(Push(st, phrase2), phrase2, 2, {})
                  ELSE st
           meaningful3 ==
             /\ i < Len(words) - 1
             /\ JoinedLength(phrase3) > 10
             /\ JoinedLength(phrase3) < 30
             /\ Lower(phrase3) \notin st2.processedTerms
             /\ HasWordOf(phrase3, AutomotiveWords)
           st3 == IF meaningful3
                  THEN AddWords(Push(st2, phrase3), phrase3, 2, {})
                  ELSE st2
       IN AddPhrases(st3, words, i + 1)

\* [...new Set(keywords)]
RECURSIVE Unique(_)
Unique(terms) ==
  IF terms = <<>> THEN <<>>
  ELSE LET rest == Unique(SubSeq(terms, 1, Len(terms) - 1))
           term == terms[Len(terms)]
       IN IF \E i \in 1..Len(rest) : rest[i] = term THEN rest
          ELSE Append(rest, term)

\* the comparator of 2439-2453 is negative: a goes before b
GoesBefore(a, b, quotedPhrases) ==
  LET inQuotes(term) ==
        \E i \in 1..Len(quotedPhrases) : Includes(quotedPhrases[i].words, term)
  IN IF inQuotes(a) /\ ~inQuotes(b) THEN TRUE
     ELSE IF inQuotes(b) /\ ~inQuotes(a) THEN FALSE
     ELSE IF Len(a) # Len(b) THEN Len(a) > Len(b)
     ELSE JoinedLength(a) > JoinedLength(b)

RECURSIVE InsertByPriority(_, _, _)
InsertByPriority(term, sorted, quotedPhrases) ==
  IF sorted = <<>> THEN <<term>>
  ELSE IF GoesBefore(term, Head(sorted), quotedPhrases)
  THEN <<term>> \o sorted
  ELSE <<Head(sorted)>> \o InsertByPriority(term, Tail(sorted), quotedPhrases)

\* uniqueKeywords.sort(...): terms the comparator ranks equal keep their order
RECURSIVE SortByPriority(_, _)
SortByPriority(terms, quotedPhrases) ==
  IF terms = <<>> THEN <<>>
  ELSE InsertByPriority(terms[Len(terms)],
         SortByPriority(SubSeq(terms, 1, Len(terms) - 1), quotedPhrases),
         quotedPhrases)

\* terms.slice(0, n)
Slice(terms, n) == SubSeq(terms, 1, Min(n, Len(terms)))

extractKeywordsFromQuery(query) ==
  LET quotedPhrases == SelectSeq(query, LAMBDA token : token.quoted)
      words == SignificantWords(query)
      st1 == AddQuotedPhrases([keywords |-> <<>>, processedTerms |-> {}],
                              quotedPhrases)
      st2 == AddPhrases(st1, words, 1)
      st3 == AddWords(st2, words, 3, ShortWords)
  IN Slice(SortByPriority(Unique(st3.keywords), quotedPhrases), MaxSearchTerms)

\* detectQueryType 2290-2306
ExtractedKeywords(query) ==
  LET tireDetection == detectTireSizeQuery(query)
      isKeywordSearch ==
        \/ MatchesKeywordPattern(query)
        \/ tireDetection.isTireQuery
        \/ detectMTFQuery(query)
      sizes == [i \in 1..Len(COMMON_TIRE_SIZES) |-> <<COMMON_TIRE_SIZES[i]>>]
      detected == [i \in 1..Len(tireDetection.detectedSizes) |->
                     <<tireDetection.detectedSizes[i]>>]
      generalTireTerms ==
        SelectSeq(extractKeywordsFromQuery(query),
                  LAMBDA keyword : ~\E i \in 1..Len(sizes) : sizes[i] = keyword)
  IN IF ~isKeywordSearch THEN <<>>
     ELSE IF tireDetection.isTireQuery
     THEN sizes \o detected \o generalTireTerms
     ELSE extractKeywordsFromQuery(query)

\* the question as detectQueryType of the endpoint model takes it
QueryOf(query) ==
  LET tire == detectTireSizeQuery(query).isTireQuery
  IN Query(TRUE, detectMTFQuery(query), tire, MatchesKeywordPattern(query),
           Topics(query),
           Len(ExtractedKeywords(query))
             - IF tire THEN Len(COMMON_TIRE_SIZES) ELSE 0)

Tokens ==
  {Plain(word) :
     word \in {"mobile", "tyre", "fitting", "size", "195/65R15", "search",
               "for", "outcome", "sentiment", "agent", "time", "queue",
               "summary", "trend"}}
    \cup {QuotedPhrase(<<"Refund">>), QuotedPhrase(<<"refund">>)}

\* two questions long enough to yield more than MaxSearchTerms terms
LongQuestions ==
  {[i \in 1..9 |->
      Plain(<<"mobile", "tyre", "fitting", fourth, "outcome", "sentiment",
              "agent", "queue", "summary">>[i])] :
     fourth \in {"size", "195/65R15"}}

Questions ==
  UNION {[1..n -> Tokens] : n \in 1..MaxWords} \cup LongQuestions

\* detectQueryType(query) on a question given by its words
Classify ==
  /\ applied = "none"
  /\ LET d == detectQueryType(QueryOf(input.query))
     IN output' = [type |-> d.type, isKeywordSearch |-> d.isKeywordSearch,
                   isTireQuery |-> d.isTireQuery, isMTFQuery |-> d.isMTFQuery,
                   extractedKeywords |-> ExtractedKeywords(input.query)]
  /\ applied' = "detectQueryType"
  /\ UNCHANGED <<endpointVars, input, outerVars>>

InitClassifier ==
  /\ InitEndpoint
  /\ InitOuter
  /\ input \in [query : Questions]
  /\ output = <<>>
  /\ applied = "none"

NextClassifier == Classify

SpecClassifier == InitClassifier /\ [][NextClassifier]_vars

\* the types in the order of their priority
TypePriority ==
  <<"mtf_analysis", "tire_size_search", "keyword_search">> \o TopicOrder
    \o <<"general">>

\* the matcher of a type holds of the question
MatcherHolds(type, query) ==
  CASE type = "mtf_analysis" -> detectMTFQuery(query)
    [] type = "tire_size_search" -> detectTireSizeQuery(query).isTireQuery
    [] type = "keyword_search" -> MatchesKeywordPattern(query)
    [] type = "general" -> TRUE
    [] OTHER -> type \in Topics(query)

\* C24: detectQueryType assigns the one type that comes first, in the order
\* mtf_analysis, tire_size_search, keyword_search, disposition, sentiment,
\* agent_performance, timing, queue_analysis, summary, trends, general, among
\* those whose matcher holds of the question.
C24_TypeByFixedPriority ==
  applied = "detectQueryType" =>
    \E k \in 1..Len(TypePriority) :
      /\ output.type = TypePriority[k]
      /\ MatcherHolds(TypePriority[k], input.query)
      /\ \A j \in 1..(k - 1) : ~MatcherHolds(TypePriority[j], input.query)

\* a question matching the MTF, tyre-size and keyword matchers and several
\* topics was classified mtf_analysis
C24_Witness ==
  /\ applied = "detectQueryType"
  /\ detectMTFQuery(input.query)
  /\ detectTireSizeQuery(input.query).isTireQuery
  /\ MatchesKeywordPattern(input.query)
  /\ Cardinality(Topics(input.query)) >= 2
  /\ output.type = "mtf_analysis"

\* C25: for every question the list of extracted search terms handed to the
\* transcript search has at most 15 terms, tyre-size and MTF questions
\* included.
C25_AtMostFifteenTerms ==
  applied = "detectQueryType" =>
    Len(output.extractedKeywords) <= MaxSearchTerms

\* the list of a question that is not a tyre-size question is capped
TermsCappedUnlessTireQuery ==
  (applied = "detectQueryType" /\ ~output.isTireQuery) =>
    Len(output.extractedKeywords) <= MaxSearchTerms

\* the terms of a list are pairwise different ignoring case
DistinctIgnoringCase(terms) ==
  \A i \in 1..Len(terms), j \in 1..Len(terms) :
    i # j => Lower(terms[i]) # Lower(terms[j])

\* C26: for every question the extracted search-term list never holds two
\* terms that are equal ignoring case, repeated quoted phrases and tyre
\* sizes that are both in the question and in the predefined list included.
C26_NoTermTwiceIgnoringCase ==
  applied = "detectQueryType" => DistinctIgnoringCase(output.extractedKeywords)

\* without quoted phrases and tyre-size questions the terms are distinct
UnquotedTermsAreDistinct ==
  (/\ applied = "detectQueryType"
   /\ ~output.isTireQuery
   /\ \A i \in 1..Len(input.query) : ~input.query[i].quoted) =>
    DistinctIgnoringCase(output.extractedKeywords)

\* ---------------------------------------------------------------------
\* Expansion of a search term (expandKeyword, expandSingleWord).  A term is
\* the sequence of its characters, so that case, length, suffixes and
\* splitting are computed as the code computes them.
\* ---------------------------------------------------------------------

MaxChars == 3   \* longest term spelt out over TermAlphabet

Capitals ==
  <<"A", "B", "C", "D", "E", "F", "G", "H", "I", "J", "K", "L", "M",
    "N", "O", "P", "Q", "R", "S", "T", "U", "V", "W", "X", "Y", "Z">>

Smalls ==
  <<"a", "b", "c", "d", "e", "f", "g", "h", "i", "j", "k", "l", "m",
    "n", "o", "p", "q", "r", "s", "t", "u", "v", "w", "x", "y", "z">>

Numerals == {"0", "1", "2", "3", "4", "5", "6", "7", "8", "9"}

toLowerCase(s) ==
  [i \in 1..Len(s) |->
     IF \E k \in 1..Len(Capitals) : Capitals[k] = s[i]
     THEN Smalls[CHOOSE k \in 1..Len(Capitals) : Capitals[k] = s[i]]
     ELSE s[i]]

toUpperCase(s) ==
  [i \in 1..Len(s) |->
     IF \E k \in 1..Len(Smalls) : Smalls[k] = s[i]
     THEN Capitals[CHOOSE k \in 1..Len(Smalls) : Smalls[k] = s[i]]
     ELSE s[i]]

\* s.trim()
trim(s) ==
  LET inked == {i \in 1..Len(s) : s[i] # " "}
  IN IF inked = {} THEN <<>>
     ELSE SubSeq(s, CHOOSE i \in inked : \A j \in inked : i <= j,
                    CHOOSE i \in inked : \A j \in inked : j <= i)

endsWith(s, suffix) ==
  /\ Len(suffix) <= Len(s)
  /\ SubSeq(s, Len(s) - Len(suffix) + 1, Len(s)) = suffix

\* s.slice(0, -n)
sliceOff(s, n) == SubSeq(s, 1, Len(s) - n)

includes(s, c) == \E i \in 1..Len(s) : s[i] = c

\* s.split(c) for a one-character separator: the pieces between the
\* separators, empty pieces included
RECURSIVE split(_, _)
split(s, c) ==
  IF ~includes(s, c) THEN <<s>>
  ELSE LET i == CHOOSE k \in 1..Len(s) :
                  s[k] = c /\ \A j \in 1..(k - 1) : s[j] # c
       IN <<SubSeq(s, 1, i - 1)>> \o split(SubSeq(s, i + 1, Len(s)), c)

\* s.split(/\s+/) of a trimmed string: a run of blanks separates once
splitAtBlanks(s) == SelectSeq(split(s, " "), LAMBDA piece : piece # <<>>)

RECURSIVE join(_, _)
join(pieces, glue) ==
  IF pieces = <<>> THEN <<>>
  ELSE IF Len(pieces) = 1 THEN pieces[1]
  ELSE pieces[1] \o glue \o join(Tail(pieces), glue)

\* s.replace(/r/gi, '')
withoutRs(s) == SelectSeq(s, LAMBDA c : c \notin {"r", "R"})

CALL_CENTER_SYNONYMS ==
  {[word |-> <<"a", "n", "g", "r", "y">>,
   synonyms |-> {<<"m", "a", "d">>,
                 <<"u", "p", "s", "e", "t">>,
                 <<"f", "u", "r", "i", "o", "u", "s">>,
                 <<"i", "r", "r", "i", "t", "a", "t", "e", "d">>,
                 <<"f", "r", "u", "s", "t", "r", "a", "t", "e", "d">>,
                 <<"a", "n", "n", "o", "y", "e", "d">>,
                 <<"i", "r", "a", "t", "e">>}],
  [word |-> <<"h", "a", "p", "p", "y">>,
   synonyms |-> {<<"p", "l", "e", "a", "s", "e", "d">>,
                 <<"s", "a", "t", "i", "s", "f", "i", "e", "d">>,
                 <<"c", "o", "n", "t", "e", "n", "t">>,
                 <<"g", "l", "a", "d">>,
                 <<"d", "e", "l", "i", "g", "h", "t", "e", "d">>,
                 <<"t", "h", "r", "i", "l", "l", "e", "d">>}],
  [word |-> <<"p", "r", "o", "b", "l", "e", "m">>,
   synonyms |-> {<<"i", "s", "s", "u", "e">>,
                 <<"t", "r", "o", "u", "b", "l", "e">>,
                 <<"d", "i", "f", "f", "i", "c", "u", "l", "t", "y">>,
                 <<"c", "o", "n", "c", "e", "r", "n">>,
                 <<"m", "a", "t", "t", "e", "r">>,
                 <<"f", "a", "u", "l", "t">>,
                 <<"d", "e", "f", "e", "c", "t">>}],
  [word |-> <<"r", "e", "f", "u", "n", "d">>,
   synonyms |-> {<<"r", "e", "t", "u", "r", "n">>,
                 <<"r", "e", "i", "m", "b", "u", "r", "s", "e", "m", "e", "n", "t">>,
                 <<"m", "o", "n", "e", "y", " ", "b", "a", "c", "k">>,
                 <<"c", "r", "e", "d", "i", "t">>,
                 <<"c", "h", "a", "r", "g", "e", "b", "a", "c", "k">>}],
  [word |-> <<"c", "a", "n", "c", "e", "l">>,
   synonyms |-> {<<"t", "e", "r", "m", "i", "n", "a", "t", "e">>,
                 <<"e", "n", "d">>,
                 <<"s", "t", "o", "p">>,
                 <<"d", "i", "s", "c", "o", "n", "t", "i", "n", "u", "e">>,
                 <<"a", "b", "o", "r", "t">>}],
  [word |-> <<"b", "i", "l", "l", "i", "n", "g">>,
   synonyms |-> {<<"p", "a", "y", "m", "e", "n", "t">>,
                 <<"i", "n", "v", "o", "i", "c", "e">>,
                 <<"c", "h", "a", "r", "g", "e">>,
                 <<"f", "e", "e">>,
                 <<"c", "o", "s", "t">>,
                 <<"b", "i", "l", "l">>}],
  [word |-> <<"a", "c", "c", "o", "u", "n", "t">>,
   synonyms |-> {<<"p", "r", "o", "f", "i", "l", "e">>,
                 <<"m", "e", "m", "b", "e", "r", "s", "h", "i", "p">>,
                 <<"s", "u", "b", "s", "c", "r", "i", "p", "t", "i", "o", "n">>,
                 <<"l", "o", "g", "i", "n">>}],
  [word |-> <<"s", "e", "r", "v", "i", "c", "e">>,
   synonyms |-> {<<"s", "u", "p", "p", "o", "r", "t">>,
                 <<"h", "e", "l", "p">>,
                 <<"a", "s", "s", "i", "s", "t", "a", "n", "c", "e">>,
                 <<"r", "e", "p", "a", "i", "r">>,
                 <<"m", "a", "i", "n", "t", "e", "n", "a", "n", "c", "e">>}],
  [word |-> <<"p", "r", "o", "d", "u", "c", "t">>,
   synonyms |-> {<<"i", "t", "e", "m">>,
                 <<"m", "e", "r", "c", "h", "a", "n", "d", "i", "s", "e">>,
                 <<"g", "o", "o", "d", "s">>,
                 <<"p", "a", "r", "t">>,
                 <<"c", "o", "m", "p", "o", "n", "e", "n", "t">>}],
  [word |-> <<"d", "e", "l", "i", "v", "e", "r", "y">>,
   synonyms |-> {<<"s", "h", "i", "p", "p", "i", "n", "g">>,
                 <<"s", "h", "i", "p", "m", "e", "n", "t">>,
                 <<"s", "e", "n", "t">>,
                 <<"m", "a", "i", "l">>,
                 <<"t", "r", "a", "n", "s", "p", "o", "r", "t">>}],
  [word |-> <<"u", "r", "g", "e", "n", "t">>,
   synonyms |-> {<<"e", "m", "e", "r", "g", "e", "n", "c", "y">>,
                 <<"c", "r", "i", "t", "i", "c", "a", "l">>,
                 <<"i", "m", "p", "o", "r", "t", "a", "n", "t">>,
                 <<"r", "u", "s", "h">>,
                 <<"a", "s", "a", "p">>}],
  [word |-> <<"w", "a", "i", "t", "i", "n", "g">>,
   synonyms |-> {<<"h", "o", "l", "d">>,
                 <<"q", "u", "e", "u", "e">>,
                 <<"p", "e", "n", "d", "i", "n", "g">>,
                 <<"d", "e", "l", "a", "y">>,
                 <<"w", "a", "i", "t">>}],
  [word |-> <<"a", "l", "i", "g", "n", "m", "e", "n", "t">>,
   synonyms |-> {<<"a", "l", "i", "g", "n">>,
                 <<"a", "l", "i", "g", "n", "e", "d">>,
                 <<"b", "a", "l", "a", "n", "c", "i", "n", "g">>,
                 <<"a", "d", "j", "u", "s", "t", "m", "e", "n", "t">>,
                 <<"c", "a", "l", "i", "b", "r", "a", "t", "i", "o", "n">>}],
  [word |-> <<"w", "h", "e", "e", "l">>,
   synonyms |-> {<<"t", "i", "r", "e">>,
                 <<"r", "i", "m">>,
                 <<"h", "u", "b">>,
                 <<"w", "h", "e", "e", "l", "s">>}],
  [word |-> <<"b", "r", "a", "k", "e">>,
   synonyms |-> {<<"b", "r", "a", "k", "e", "s">>,
                 <<"b", "r", "a", "k", "i", "n", "g">>,
                 <<"s", "t", "o", "p">>,
                 <<"s", "t", "o", "p", "p", "i", "n", "g">>}],
  [word |-> <<"e", "n", "g", "i", "n", "e">>,
   synonyms |-> {<<"m", "o", "t", "o", "r">>,
                 <<"p", "o", "w", "e", "r", "p", "l", "a", "n", "t">>,
                 <<"d", "r", "i", "v", "e", "t", "r", "a", "i", "n">>}],
  [word |-> <<"o", "i", "l">>,
   synonyms |-> {<<"l", "u", "b", "r", "i", "c", "a", "n", "t">>,
                 <<"f", "l", "u", "i", "d">>,
                 <<"l", "u", "b", "e">>}],
  [word |-> <<"t", "i", "r", "e">>,
   synonyms |-> {<<"t", "y", "r", "e">>,
                 <<"w", "h", "e", "e", "l">>,
                 <<"r", "u", "b", "b", "e", "r">>}],
  [word |-> <<"r", "e", "p", "a", "i", "r">>,
   synonyms |-> {<<"f", "i", "x">>,
                 <<"s", "e", "r", "v", "i", "c", "e">>,
                 <<"m", "a", "i", "n", "t", "e", "n", "a", "n", "c", "e">>,
                 <<"w", "o", "r", "k">>}],
  [word |-> <<"q", "u", "o", "t", "e">>,
   synonyms |-> {<<"e", "s", "t", "i", "m", "a", "t", "e">>,
                 <<"p", "r", "i", "c", "e">>,
                 <<"c", "o", "s", "t">>,
                 <<"p", "r", "i", "c", "i", "n", "g">>}],
  [word |-> <<"w", "a", "r", "r", "a", "n", "t", "y">>,
   synonyms |-> {<<"g", "u", "a", "r", "a", "n", "t", "e", "e">>,
                 <<"c", "o", "v", "e", "r", "a", "g", "e">>,
                 <<"p", "r", "o", "t", "e", "c", "t", "i", "o", "n">>}],
  [word |-> <<"s", "t", "o", "c", "k">>,
   synonyms |-> {<<"i", "n", "v", "e", "n", "t", "o", "r", "y">>,
                 <<"a", "v", "a", "i", "l", "a", "b", "i", "l", "i", "t", "y">>,
                 <<"a", "v", "a", "i", "l", "a", "b", "l", "e">>,
                 <<"s", "u", "p", "p", "l", "y">>,
                 <<"i", "n", " ", "s", "t", "o", "c", "k">>,
                 <<"o", "u", "t", " ", "o", "f", " ", "s", "t", "o", "c", "k">>}],
  [word |-> <<"s", "i", "z", "e">>,
   synonyms |-> {<<"s", "i", "z", "e", "s">>,
                 <<"d", "i", "m", "e", "n", "s", "i", "o", "n">>,
                 <<"d", "i", "m", "e", "n", "s", "i", "o", "n", "s">>,
                 <<"s", "p", "e", "c", "i", "f", "i", "c", "a", "t", "i", "o", "n">>,
                 <<"s", "p", "e", "c", "s">>}],
  [word |-> <<"c", "o", "m", "m", "o", "n">>,
   synonyms |-> {<<"p", "o", "p", "u", "l", "a", "r">>,
                 <<"f", "r", "e", "q", "u", "e", "n", "t">>,
                 <<"u", "s", "u", "a", "l">>,
                 <<"t", "y", "p", "i", "c", "a", "l">>,
                 <<"s", "t", "a", "n", "d", "a", "r", "d">>}],
  [word |-> <<"u", "n", "a", "v", "a", "i", "l", "a", "b", "l", "e">>,
   synonyms |-> {<<"o", "u", "t", " ", "o", "f", " ", "s", "t", "o", "c", "k">>,
                 <<"n", "o", "t", " ", "a", "v", "a", "i", "l", "a", "b", "l", "e">>,
                 <<"s", "o", "l", "d", " ", "o", "u", "t">>,
                 <<"b", "a", "c", "k", "o", "r", "d", "e", "r", "e", "d">>,
                 <<"n", "o", " ", "s", "t", "o", "c", "k">>}],
  [word |-> <<"m", "o", "b", "i", "l", "e">>,
   synonyms |-> {<<"m", "o", "b", "i", "l", "e", " ", "t", "y", "r", "e">>,
                 <<"m", "o", "b", "i", "l", "e", " ", "t", "i", "r", "e">>,
                 <<"m", "o", "b", "i", "l", "e", " ", "s", "e", "r", "v", "i", "c", "e">>,
                 <<"o", "n", "-", "s", "i", "t", "e">>,
                 <<"h", "o", "m", "e", " ", "s", "e", "r", "v", "i", "c", "e">>,
                 <<"m", "o", "b", "i", "l", "e", " ", "f", "i", "t", "t", "i", "n", "g">>}],
  [word |-> <<"f", "i", "t", "t", "i", "n", "g">>,
   synonyms |-> {<<"i", "n", "s", "t", "a", "l", "l", "a", "t", "i", "o", "n">>,
                 <<"m", "o", "u", "n", "t", "i", "n", "g">>,
                 <<"c", "h", "a", "n", "g", "i", "n", "g">>,
                 <<"r", "e", "p", "l", "a", "c", "i", "n", "g">>,
                 <<"f", "i", "t">>}],
  [word |-> <<"a", "p", "p", "o", "i", "n", "t", "m", "e", "n", "t">>,
   synonyms |-> {<<"b", "o", "o", "k", "i", "n", "g">>,
                 <<"s", "c", "h", "e", "d", "u", "l", "e">>,
                 <<"r", "e", "s", "e", "r", "v", "a", "t", "i", "o", "n">>,
                 <<"s", "l", "o", "t">>,
                 <<"v", "i", "s", "i", "t">>}]}

\* CALL_CENTER_SYNONYMS[lower] for a key of the table
SynonymsOf(lower) ==
  UNION {entry.synonyms : entry \in {e \in CALL_CENTER_SYNONYMS : e.word = lower}}

\* Lower-case property names every object literal inherits:
\* CALL_CENTER_SYNONYMS[lower] is then a function (truthy) without forEach,
\* and the call at line 2131 throws a TypeError.
InheritedKeys == {<<"c", "o", "n", "s", "t", "r", "u", "c", "t", "o", "r">>}

suffixes ==
  {<<"i", "n", "g">>,
   <<"e", "d">>,
   <<"e", "r">>,
   <<"e", "s", "t">>,
   <<"l", "y">>,
   <<"t", "i", "o", "n">>,
   <<"s", "i", "o", "n">>,
   <<"n", "e", "s", "s">>,
   <<"m", "e", "n", "t">>}

expandSingleWordThrows(word) == trim(toLowerCase(word)) \in InheritedKeys

expandSingleWord(word) ==
  LET lower == trim(toLowerCase(word))
      n == Len(lower)
      numberForms ==
        IF endsWith(lower, <<"s">>) /\ n > 3
        THEN {sliceOff(lower, 1)}
             \cup (IF endsWith(lower, <<"i", "e", "s">>) /\ n > 4
                   THEN {sliceOff(lower, 3) \o <<"y">>} ELSE {})
             \cup (IF endsWith(lower, <<"e", "s">>) /\ n > 3
                   THEN {sliceOff(lower, 2)} ELSE {})
        ELSE {lower \o <<"s">>, lower \o <<"e", "s">>}
             \cup (IF endsWith(lower, <<"y">>) /\ n > 2
                   THEN {sliceOff(lower, 1) \o <<"i", "e", "s">>} ELSE {})
      verbForms ==
        {lower \o ending :
           ending \in {e \in {<<"i", "n", "g">>, <<"e", "d">>, <<"e", "r">>,
                              <<"e", "s", "t">>} : ~endsWith(lower, e)}}
      stems ==
        {sliceOff(lower, Len(suffix)) :
           suffix \in {x \in suffixes : endsWith(lower, x) /\ n > Len(x) + 2}}
      synonymForms ==
        UNION {{synonym, synonym \o <<"s">>, synonym \o <<"e", "s">>} :
                 synonym \in SynonymsOf(lower)}
      parts == split(lower, "-")
      compoundForms ==
        IF includes(lower, "-")
        THEN {trim(parts[i]) : i \in {k \in 1..Len(parts) : Len(trim(parts[k])) > 1}}
             \cup {join(parts, <<" ">>), join(parts, <<>>)}
        ELSE {}
  IN {v \in {lower} \cup numberForms \cup verbForms \cup stems
              \cup synonymForms \cup compoundForms : Len(v) > 1}

\* /^\d{3}\/\d{2}R?\d{2}$/i
tireSizePattern(keyword) ==
  \/ /\ Len(keyword) = 9
     /\ \A i \in {1, 2, 3, 5, 6, 8, 9} : keyword[i] \in Numerals
     /\ keyword[4] = "/"
     /\ keyword[7] \in {"R", "r"}
  \/ /\ Len(keyword) = 8
     /\ \A i \in {1, 2, 3, 5, 6, 7, 8} : keyword[i] \in Numerals
     /\ keyword[4] = "/"

\* the words of a phrase that expandKeyword hands to expandSingleWord
phraseWords(lower) == SelectSeq(splitAtBlanks(lower), LAMBDA word : Len(word) > 1)

expandKeywordThrows(keyword) ==
  LET lower == trim(toLowerCase(keyword))
      words == phraseWords(lower)
  IN /\ ~tireSizePattern(keyword)
     /\ IF includes(lower, " ")
        THEN \E i \in 1..Len(words) :
               Len(words[i]) > 2 /\ expandSingleWordThrows(words[i])
        ELSE expandSingleWordThrows(lower)

expandKeyword(keyword) ==
  LET lower == trim(toLowerCase(keyword))
      words == phraseWords(lower)
      withoutR == withoutRs(keyword)
      withR == SubSeq(keyword, 1, 6) \o <<"R">> \o SubSeq(keyword, 7, 8)
  IN IF tireSizePattern(keyword)
     THEN {lower, keyword, toLowerCase(keyword), toUpperCase(keyword)}
          \cup (IF includes(keyword, "R") \/ includes(keyword, "r")
                THEN {withoutR, toLowerCase(withoutR), toUpperCase(withoutR)}
                ELSE {withR, toLowerCase(withR), toUpperCase(withR)})
     ELSE {v \in {lower}
                 \cup (IF includes(lower, " ")
                       THEN UNION {expandSingleWord(words[i]) :
                                     i \in {k \in 1..Len(words) : Len(words[k]) > 2}}
                            \cup {join(words, <<"-">>), join(words, <<>>)}
                            \cup (IF Len(words) >= 3
                                  THEN {join(SubSeq(words, i, i + 1), <<" ">>) :
                                          i \in 1..(Len(words) - 1)}
                                  ELSE {})
                       ELSE expandSingleWord(lower)) : Len(v) > 1}

\* what a call of expandKeyword gives its caller
Expansion(keyword) ==
  IF expandKeywordThrows(keyword)
  THEN [threw |-> TRUE, variations |-> {}]
  ELSE [threw |-> FALSE, variations |-> expandKeyword(keyword)]

TermAlphabet == {"a", "s", "e", "y", "X", " ", "-"}

\* the strings of up to MaxChars characters a quoted phrase can be: not
\* empty, and trimmed (line 2344)
SpeltTerms ==
  {term \in UNION {[1..n -> TermAlphabet] : n \in 1..MaxChars} :
     term[1] # " " /\ term[Len(term)] # " "}

NamedTerms ==
  {<<"t", "i", "r", "e">>,
   <<"t", "i", "r", "e", "s">>,
   <<"R", "e", "f", "u", "n", "d">>,
   <<"r", "e", "f", "u", "n", "d">>,
   <<"b", "a", "t", "t", "e", "r", "i", "e", "s">>,
   <<"h", "a", "p", "p", "y">>,
   <<"f", "i", "t", "t", "i", "n", "g">>,
   <<"b", "o", "o", "k", "i", "n", "g">>,
   <<"1", "9", "5", "/", "6", "5", "R", "1", "5">>,
   <<"1", "9", "5", "/", "6", "5", "r", "1", "5">>,
   <<"1", "9", "5", "/", "6", "5", "1", "5">>,
   <<"m", "o", "n", "e", "y", " ", "b", "a", "c", "k">>,
   <<"m", "o", "b", "i", "l", "e", " ", "t", "y", "r", "e", " ", "f", "i", "t", "t", "i", "n", "g">>,
   <<"o", "n", "-", "s", "i", "t", "e">>,
   <<"c", "o", "n", "s", "t", "r", "u", "c", "t", "o", "r">>,
   <<"T", "y", "r", "e", " ", "S", "i", "z", "e">>}

Terms == SpeltTerms \cup NamedTerms

Expand ==
  /\ applied = "none"
  /\ output' = Expansion(input.keyword)
  /\ applied' = "expandKeyword"
  /\ UNCHANGED <<endpointVars, input, outerVars>>

InitExpansion ==
  /\ InitEndpoint
  /\ InitOuter
  /\ input \in [keyword : Terms]
  /\ output = <<>>
  /\ applied = "none"

NextExpansion == Expand

SpecExpansion == InitExpansion /\ [][NextExpansion]_vars

\* Properties of the expansion, checked under SpecExpansion

\* C27: for every term the classifier can extract (any non-empty string, a
\* one-character quoted term and a term with upper-case letters included)
\* expandKeyword returns, and what it returns contains the term itself.
C27_ExpansionContainsTerm ==
  applied = "expandKeyword" =>
    /\ ~output.threw
    /\ input.keyword \in output.variations

\* the lower-case form of a term of two characters or more is among the
\* variations whenever the call returns
ExpansionContainsLowerCaseTerm ==
  (/\ applied = "expandKeyword"
   /\ ~output.threw
   /\ Len(input.keyword) > 1) =>
    toLowerCase(input.keyword) \in output.variations

\* C28: for every term t and every variant v in expandKeyword(t),
\* expandKeyword(v) is a subset of expandKeyword(t); expanding again never
\* grows the set of variants.
C28_ExpansionIsIdempotent ==
  (applied = "expandKeyword" /\ ~output.threw) =>
    \A v \in output.variations :
      /\ ~expandKeywordThrows(v)
      /\ expandKeyword(v) \subseteq output.variations

\* ---------------------------------------------------------------------
\* selectRelevantTranscripts: the transcript samples shown as examples.
\* A record is described by what the selection reads of it: whether it has
\* a transcript, its agent, disposition and sentiment, and the number of
\* times the words of the question occur in its transcript.
\* ---------------------------------------------------------------------

MaxCandidates == 3   \* longest record list handed to the selection
maxTranscripts == 3

CandidateRecords ==
  [transcript_text : BOOLEAN, agent : {"agentA", "agentB"},
   disposition : {"Sale"}, sentiment : {"Neutral", "Negative"},
   matches : {0, 3}]

\* the scoredTranscripts entry of the record at position id
ScoredTranscript(record, id) ==
  [id |-> id, agent |-> record.agent, disposition |-> record.disposition,
   sentiment |-> record.sentiment,
   relevanceScore |-> record.matches * 2
                      + (IF record.sentiment = "Negative" THEN 1 ELSE 0)
                      + (IF record.sentiment = "Positive" THEN 1 ELSE 0)]

scoredTranscripts(records) ==
  LET available == {i \in 1..Len(records) : records[i].transcript_text}
      positions == SelectSeq([i \in 1..Len(records) |-> i],
                             LAMBDA i : i \in available)
  IN [k \in 1..Len(positions) |->
        ScoredTranscript(records[positions[k]], positions[k])]

\* sort((a, b) => b.relevanceScore - a.relevanceScore): descending, and
\* stable among equal scores
RECURSIVE InsertByScore(_, _)
InsertByScore(sorted, t) ==
  IF sorted = <<>> THEN <<t>>
  ELSE IF t.relevanceScore > Head(sorted).relevanceScore
       THEN <<t>> \o sorted
       ELSE <<Head(sorted)>> \o InsertByScore(Tail(sorted), t)

RECURSIVE SortByScore(_)
SortByScore(scored) ==
  IF scored = <<>> THEN <<>>
  ELSE InsertByScore(SortByScore(SubSeq(scored, 1, Len(scored) - 1)),
                         scored[Len(scored)])

sortedTranscripts(records) ==
  LET sorted == SortByScore(scoredTranscripts(records))
  IN SubSeq(sorted, 1, Min(maxTranscripts * 2, Len(sorted)))

\* the first loop: a transcript is taken when it brings a new agent,
\* disposition or sentiment, when nothing is selected yet, or when it
\* scores above 5
RECURSIVE DiversityPass(_, _)
DiversityPass(sorted, selected) ==
  IF sorted = <<>> \/ Len(selected) >= maxTranscripts THEN selected
  ELSE LET transcript == Head(sorted)
           used(field) == {selected[i][field] : i \in 1..Len(selected)}
           diversityBonus ==
             (IF transcript.agent \notin used("agent") THEN 1 ELSE 0)
             + (IF transcript.disposition \notin used("disposition") THEN 1 ELSE 0)
             + (IF transcript.sentiment \notin used("sentiment") THEN 1 ELSE 0)
       IN DiversityPass(Tail(sorted),
            IF \/ diversityBonus > 0
               \/ Len(selected) = 0
               \/ transcript.relevanceScore > 5
            THEN Append(selected, transcript)
            ELSE selected)

\* the second loop: the sorted transcripts not yet selected, in order
RECURSIVE Backfill(_, _)
Backfill(sorted, selected) ==
  IF sorted = <<>> \/ Len(selected) >= maxTranscripts THEN selected
  ELSE Backfill(Tail(sorted),
         IF \A i \in 1..Len(selected) : selected[i].id # Head(sorted).id
         THEN Append(selected, Head(sorted))
         ELSE selected)

BackfillNeeded(selected) == Len(selected) < Min(maxTranscripts, 2)

selectRelevantTranscripts(records) ==
  LET sorted == sortedTranscripts(records)
      selected == DiversityPass(sorted, <<>>)
  IN IF sorted = <<>> THEN <<>>
     ELSE IF BackfillNeeded(selected) THEN Backfill(sorted, selected)
     ELSE selected

Select ==
  /\ applied = "none"
  /\ output' = [selected |-> selectRelevantTranscripts(input.records)]
  /\ applied' = "selectRelevantTranscripts"
  /\ UNCHANGED <<endpointVars, input, outerVars>>

InitSelection ==
  /\ InitEndpoint
  /\ InitOuter
  /\ input \in [records : UNION {[1..n -> CandidateRecords] : n \in 0..MaxCandidates}]
  /\ output = <<>>
  /\ applied = "none"

NextSelection == Select

SpecSelection == InitSelection /\ [][NextSelection]_vars

\* Properties of the selection, checked under SpecSelection

\* the records of the input that have a transcript
TranscriptBearing == {i \in 1..Len(input.records) : input.records[i].transcript_text}

NoRecordTwice(selected) ==
  \A i \in 1..Len(selected), j \in 1..Len(selected) :
    i # j => selected[i].id # selected[j].id

\* C30: selectRelevantTranscripts returns min(3, number of records with a
\* transcript) samples, all of different records: when the diversity pass
\* accepts fewer than 3, the free places are filled with the best-scoring
\* transcripts not yet selected.
C30_BackfilledToTarget ==
  applied = "selectRelevantTranscripts" =>
    /\ Len(output.selected) = Min(maxTranscripts, Cardinality(TranscriptBearing))
    /\ NoRecordTwice(output.selected)

\* no record is selected twice, at most 3 are selected, and at least
\* min(2, number of records with a transcript)
SelectionIsDistinctAndAtLeastTwo ==
  applied = "selectRelevantTranscripts" =>
    /\ NoRecordTwice(output.selected)
    /\ Len(output.selected) <= maxTranscripts
    /\ Len(output.selected) >= Min(2, Cardinality(TranscriptBearing))

\* ---------------------------------------------------------------------
\* prepareContextForQuery: the sections of the assembled context.  The
\* context is the sequence of its headings, each with the number of
\* entries listed under it; its cut at maxTokens * 4 characters is
\* TruncateContext above.
\* ---------------------------------------------------------------------

MaxMatches == 11   \* most matching records of a search result
TopMatches == 10

Heading(title, entries) == [title |-> title, entries |-> entries]

NoSearchResult == [present |-> FALSE, matchingRecords |-> 0]

SearchResult(n) == [present |-> TRUE, matchingRecords |-> n]

SearchTypes == {"keyword_search", "tire_size_search", "mtf_analysis"}

analysisTitle(detectedQueryType) ==
  IF detectedQueryType = "tire_size_search" THEN "## Tire Size Stock Analysis"
  ELSE IF detectedQueryType = "mtf_analysis"
       THEN "## Mobile Tyre Fitting (MTF) Analysis"
       ELSE "## Enhanced Keyword Search Results"

\* lines 2915-2981
KeywordSearchSection(detectedQueryType, searchResults) ==
  <<Heading(analysisTitle(detectedQueryType), 0)>>
  \o (IF searchResults.matchingRecords > 0
      THEN <<Heading("### Top Matching Records",
                     Min(TopMatches, searchResults.matchingRecords))>>
           \o (IF detectedQueryType = "tire_size_search"
               THEN <<Heading("### Tire Size Analysis Summary", 0)>>
               ELSE <<>>)
      ELSE <<>>)

\* lines 2983-2999
TranscriptExamples(rawRecords) ==
  LET transcriptSamples == selectRelevantTranscripts(rawRecords)
  IN IF Len(transcriptSamples) > 0
     THEN <<Heading("## Relevant Call Transcript Examples", Len(transcriptSamples))>>
     ELSE <<>>

\* the switch of lines 3002-3053
PerIntentSection(detectedQueryType, isMTFFiltered) ==
  CASE detectedQueryType = "mtf_analysis" ->
         <<Heading("## MTF-Specific Analysis", 0)>>
         \o (IF isMTFFiltered
             THEN <<Heading("### MTF Disposition Breakdown", 0),
                    Heading("### MTF Agent Performance", 0)>>
             ELSE <<>>)
    [] detectedQueryType \in {"tire_size_search", "keyword_search"} -> <<>>
    [] detectedQueryType = "disposition" -> <<Heading("## Disposition Analysis", 0)>>
    [] OTHER -> <<Heading("## Key Metrics Overview", 0)>>

prepareContextForQuery(type, rawRecords, searchResults, isMTFFiltered) ==
  <<Heading("## Call Center Analytics Summary", 0)>>
  \o (IF type \in SearchTypes /\ searchResults.present
      THEN KeywordSearchSection(type, searchResults)
      ELSE TranscriptExamples(rawRecords))
  \o PerIntentSection(type, isMTFFiltered)

\* What POST hands to prepareContextForQuery (lines 3116, 3157-3172,
\* 3193-3196, 3212-3220): the type and the keyword flag come from one
\* detectQueryType call, a search result exists only for the three search
\* types, and the records are MTF-filtered exactly for an MTF question.
AssemblyInputs ==
  {a \in [detectedQueryType : {TypePriority[i] : i \in 1..Len(TypePriority)},
          isKeywordSearch : BOOLEAN,
          keywordSearchResults : {NoSearchResult} \cup {SearchResult(n) : n \in 0..MaxMatches},
          rawRecords : UNION {[1..n -> CandidateRecords] : n \in 0..1}] :
     /\ a.detectedQueryType = "keyword_search" => a.isKeywordSearch
     /\ a.isKeywordSearch => a.detectedQueryType \in SearchTypes
     /\ a.keywordSearchResults.present => a.detectedQueryType \in SearchTypes}

Assemble ==
  /\ applied = "none"
  /\ output' = [sections |->
                  prepareContextForQuery(input.detectedQueryType, input.rawRecords,
                                         input.keywordSearchResults,
                                         input.detectedQueryType = "mtf_analysis")]
  /\ applied' = "prepareContextForQuery sections"
  /\ UNCHANGED <<endpointVars, input, outerVars>>

InitAssembly ==
  /\ InitEndpoint
  /\ InitOuter
  /\ input \in AssemblyInputs
  /\ output = <<>>
  /\ applied = "none"

NextAssembly == Assemble

SpecAssembly == InitAssembly /\ [][NextAssembly]_vars

\* Properties of the assembled sections, checked under SpecAssembly

HasSection(titles) ==
  \E i \in 1..Len(output.sections) : output.sections[i].title \in titles

SearchTitles ==
  {"## Enhanced Keyword Search Results", "## Tire Size Stock Analysis",
   "## Mobile Tyre Fitting (MTF) Analysis"}

PerIntentTitles ==
  {"## MTF-Specific Analysis", "## Disposition Analysis",
   "## Key Metrics Overview"}

\* the keyword-search section is there, lists at most 10 records, and
\* neither transcript examples nor a per-intent section are there
SearchSectionOnly ==
  /\ HasSection(SearchTitles)
  /\ \A i \in 1..Len(output.sections) :
       output.sections[i].title = "### Top Matching Records" =>
         output.sections[i].entries <= TopMatches
  /\ ~HasSection({"## Relevant Call Transcript Examples"})
  /\ ~HasSection(PerIntentTitles)

\* C29: whenever the question is flagged as a keyword search and a search
\* result exists, the context has the keyword-search section with at most 10
\* top matching records, and has neither the per-intent analysis section
\* nor the transcript examples.
C29_SearchSectionReplacesPerIntentSection ==
  (/\ applied = "prepareContextForQuery sections"
   /\ input.isKeywordSearch
   /\ input.keywordSearchResults.present) =>
    SearchSectionOnly

\* the same for the types keyword_search and tire_size_search
SearchSectionReplacesUnlessMTF ==
  (/\ applied = "prepareContextForQuery sections"
   /\ input.detectedQueryType \in {"keyword_search", "tire_size_search"}
   /\ input.keywordSearchResults.present) =>
    SearchSectionOnly

====
